---------------------------- MODULE Spec2Model ----------------------------
(***************************************************************************)
(* A model of the JSON-to-audio preset compiler: unit normalizer, decision *)
(* engine, graph builder, preset loader, semantic search engine, role      *)
(* policies and the generator that chains them.                            *)
(*                                                                         *)
(* Python floats are modelled as exact rationals [n, d] in lowest terms;   *)
(* d = 0 is the float NaN, for which every ordering comparison is false.   *)
(* Python strings that are parsed are sequences of one-character strings.  *)
(***************************************************************************)
EXTENDS Integers, Sequences, FiniteSets, TLC

VARIABLES
    graph,            \* the Graph object last built or assembled
    virtual_busses,   \* GraphBuilder.virtual_busses (lives as long as the builder)
    build_outcome,    \* "none" | "returned" | "raised": how the last build_graph ended
    inserted,         \* connections a caller appended to the graph by hand
    json_preset,      \* the JsonPreset handed to UnitNormalizer.normalize
    normalized,       \* the NormalizedPreset normalize returned for json_preset
    renormalized,     \* the NormalizedPreset normalize returned for the fields of normalized
    normalize_outcome, \* "none" | "returned" | "raised" | "renormalized" | "reraised"
    file_paths,       \* the files handed to AudioPresetGenerator.load_presets
    presets,          \* AudioPresetGenerator.presets
    load_outcome,     \* "none" | "returned" | "raised": how load_presets ended
    hash_seed,        \* the secret that salts hash() of bytes and str in this process
    np_random,        \* the state of the global generator np.random
    infer_calls,      \* the contexts infer_decisions was called with, in call order
    infer_results,    \* the Decisions those calls returned
    other_draws,      \* uses of np.random by code other than the decision heads
    normalized_presets,  \* generator.normalized_presets: the NormalizedPreset objects
    generate_calls,   \* the arguments generate_audio_preset was called with, in call order
    generate_results, \* what those calls returned (or that they raised)
    token_embeddings, \* embedding_generator.token_embeddings: token -> TokenEmbedding
    entry_embeddings, \* embedding_generator.entry_embeddings, in insertion order
    idf_scores,       \* embedding_generator.idf_scores: token -> IDF
    search_calls,     \* the arguments search_engine.search was called with, in call order
    search_results,   \* the (preset_id, score) lists those calls returned
    policy_calls,     \* the (role, tempo) apply_policy was called with, in call order
    policy_results,   \* the adjustments those calls returned (or that they raised)
    tokenize_calls,   \* the texts SemanticTokenizer.tokenize was called with, in call order
    tokenize_results, \* the token lists those calls returned
    playing_sounds,   \* AudioInterface.playing_sounds: preset name -> playback thread
    threads,          \* the playback threads started so far: preset name and position
    call,             \* the AudioInterface call the caller is in, and its position
    call_results      \* what the finished stop_preset calls returned ("KeyError": raised)

-----------------------------------------------------------------------------
(* Bounds of the model *)

MaxBuilds == 2        \* build_graph calls on one GraphBuilder
MaxOsc == 2           \* oscillator types of a preset
MaxFx == 2            \* effects of a preset
MaxNodes == 2         \* nodes of a hand-assembled Graph
MaxConns == 2         \* connections appended to a Graph by hand
MaxRatios == 2        \* mix ratios of an oscillator
MaxFiles == 2         \* files of one load_presets call
MaxCalls == 3         \* infer_decisions calls on one DecisionEngine
MaxDraws == 2         \* uses of np.random by other code
MaxHashSeed == 1      \* process hash secrets told apart
SeedSpace == 64       \* seeds np.random.seed tells apart (2**32 in the code)
MaxPresets == 2       \* presets handed to normalize_presets
MaxGenerations == 3   \* generate_audio_preset calls on one generator
embedding_dim == 4    \* dimensions of an embedding vector (128 in the code)
MaxTokenizeCalls == 2 \* tokenize calls followed
MaxSearches == 2      \* search calls on one SemanticSearchEngine
MaxRoutedGenerations == 1 \* generate_audio_preset calls followed for their routing
MaxPlays == 2         \* playback threads started on one AudioInterface
MaxStops == 2         \* stop_preset calls made by the caller itself
MaxPolicyCalls == 2   \* apply_policy calls on one preset

-----------------------------------------------------------------------------
(* Floats as rationals *)

RECURSIVE Gcd(_, _)
Gcd(a, b) == IF b = 0 THEN a ELSE Gcd(b, a % b)

Abs(a) == IF a < 0 THEN -a ELSE a

NaN == [n |-> 0, d |-> 0]

IsNaN(x) == x.d = 0

Rat(n, d) ==
    IF d = 0 THEN NaN
    ELSE LET g == Gcd(Abs(n), Abs(d))
             s == IF d < 0 THEN -1 ELSE 1
         IN [n |-> (s * n) \div g, d |-> (s * d) \div g]

R(i) == [n |-> i, d |-> 1]

RAdd(x, y) == IF IsNaN(x) \/ IsNaN(y) THEN NaN ELSE Rat(x.n * y.d + y.n * x.d, x.d * y.d)
RSub(x, y) == IF IsNaN(x) \/ IsNaN(y) THEN NaN ELSE Rat(x.n * y.d - y.n * x.d, x.d * y.d)
RMul(x, y) == IF IsNaN(x) \/ IsNaN(y) THEN NaN ELSE Rat(x.n * y.n, x.d * y.d)
RDiv(x, y) == IF IsNaN(x) \/ IsNaN(y) THEN NaN ELSE Rat(x.n * y.d, x.d * y.n)
RLt(x, y) == ~IsNaN(x) /\ ~IsNaN(y) /\ x.n * y.d < y.n * x.d
RGt(x, y) == RLt(y, x)
RLe(x, y) == ~IsNaN(x) /\ ~IsNaN(y) /\ x.n * y.d <= y.n * x.d
RGe(x, y) == RLe(y, x)

-----------------------------------------------------------------------------
(* Python values held by the preset fields *)

PyFloat(r) == [k |-> "float", r |-> r, s |-> <<>>, l |-> <<>>]
PyInt(i)   == [k |-> "int", r |-> R(i), s |-> <<>>, l |-> <<>>]
PyStr(s)   == [k |-> "str", r |-> R(0), s |-> s, l |-> <<>>]
PyList(l)  == [k |-> "list", r |-> R(0), s |-> <<>>, l |-> l]
PyNone     == [k |-> "none", r |-> R(0), s |-> <<>>, l |-> <<>>]

IsNumber(v) == v.k \in {"int", "float"}

\* what a function call produces: a float, or a raised exception
Returned(r) == [raised |-> FALSE, v |-> r]
Raised == [raised |-> TRUE, v |-> NaN]

-----------------------------------------------------------------------------
(* str.endswith, slicing and float(str) *)

EndsWith(s, suf) ==
    /\ Len(s) >= Len(suf)
    /\ SubSeq(s, Len(s) - Len(suf) + 1, Len(s)) = suf

DropLast(s, k) == SubSeq(s, 1, Len(s) - k)

Digits == {"0", "1", "2", "3", "4", "5", "6", "7", "8", "9"}

DigitVal(c) ==
    CASE c = "0" -> 0 [] c = "1" -> 1 [] c = "2" -> 2 [] c = "3" -> 3 [] c = "4" -> 4
      [] c = "5" -> 5 [] c = "6" -> 6 [] c = "7" -> 7 [] c = "8" -> 8 [] OTHER -> 9

RECURSIVE DigitsToNat(_)
DigitsToNat(s) ==
    IF s = <<>> THEN 0 ELSE 10 * DigitsToNat(DropLast(s, 1)) + DigitVal(s[Len(s)])

RECURSIVE Pow10(_)
Pow10(k) == IF k = 0 THEN 1 ELSE 10 * Pow10(k - 1)

AllDigits(s) == \A i \in 1..Len(s) : s[i] \in Digits

\* the position of the first c in s, 0 when s holds none
IndexOf(s, c) == IF \E i \in 1..Len(s) : s[i] = c
                 THEN CHOOSE i \in 1..Len(s) : s[i] = c /\ \A j \in 1..(i - 1) : s[j] # c
                 ELSE 0

\* float() of an unsigned decimal literal: digits, at most one '.', one digit at least
FloatUnsigned(s) ==
    LET p == IndexOf(s, ".")
        ip == IF p = 0 THEN s ELSE SubSeq(s, 1, p - 1)
        fp == IF p = 0 THEN <<>> ELSE SubSeq(s, p + 1, Len(s))
    IN IF AllDigits(ip) /\ AllDigits(fp) /\ Len(ip) + Len(fp) > 0
       THEN Returned(Rat(DigitsToNat(ip) * Pow10(Len(fp)) + DigitsToNat(fp), Pow10(Len(fp))))
       ELSE Raised

\* float(s): an optional sign, then "nan" or a decimal literal; ValueError otherwise
float(s) ==
    LET signed == s # <<>> /\ s[1] \in {"-", "+"}
        body == IF signed THEN Tail(s) ELSE s
        Sign(u) == IF u.raised THEN Raised
                   ELSE IF signed /\ s[1] = "-" THEN Returned(RMul(R(-1), u.v)) ELSE u
    IN Sign(IF body = <<"n", "a", "n">> THEN Returned(NaN) ELSE FloatUnsigned(body))

-----------------------------------------------------------------------------
(* core_models: Graph *)

NodeId(prefix, i, suffix) == <<prefix, i, suffix>>

GraphNode(id, node_type, parameters) ==
    [id |-> id, node_type |-> node_type, parameters |-> parameters]

Graph == [nodes |-> <<>>, connections |-> <<>>, virtual_busses |-> <<>>,
          validation_passed |-> FALSE, validation_errors |-> <<>>]

GraphBuilder_init == [mod_lfo |-> <<>>, mod_env |-> <<>>, macro_motion |-> <<>>]

-----------------------------------------------------------------------------
(* graph_builder.GraphBuilder *)

\* f / y and f * y of a float() result f, the exception of float() passing through
ResultDiv(f, y) == IF f.raised THEN Raised ELSE Returned(RDiv(f.v, y))
ResultMul(f, y) == IF f.raised THEN Raised ELSE Returned(RMul(f.v, y))

_parse_time_to_seconds(time_value) ==
    IF IsNumber(time_value) THEN Returned(RDiv(time_value.r, R(1000)))
    ELSE IF time_value.k = "str" THEN
        IF EndsWith(time_value.s, <<"m", "s">>)
        THEN ResultDiv(float(DropLast(time_value.s, 2)), R(1000))
        ELSE IF EndsWith(time_value.s, <<"s">>) THEN float(DropLast(time_value.s, 1))
        ELSE ResultDiv(float(time_value.s), R(1000))
    ELSE IF time_value.k = "list" THEN
        Returned(RDiv(RDiv(RAdd(time_value.l[1], time_value.l[2]), R(2)), R(1000)))
    ELSE Returned(R(0))

_parse_frequency_to_hz(freq_value) ==
    IF IsNumber(freq_value) THEN Returned(freq_value.r)
    ELSE IF freq_value.k = "str" THEN
        IF EndsWith(freq_value.s, <<"H", "z">>) THEN float(DropLast(freq_value.s, 2))
        ELSE IF EndsWith(freq_value.s, <<"k", "H", "z">>)
        THEN ResultMul(float(DropLast(freq_value.s, 3)), R(1000))
        ELSE float(freq_value.s)
    ELSE IF freq_value.k = "list" THEN
        Returned(RDiv(RAdd(freq_value.l[1], freq_value.l[2]), R(2)))
    ELSE Returned(R(1000))

\* x if isinstance(x, float) else default
FloatOr(x, default) == IF x.k = "float" THEN x ELSE PyFloat(default)

_get_oscillator_params(osc_type, osc_config, index) ==
    [type |-> osc_type,
     mix |-> IF index < Len(osc_config.mix_ratios)
             THEN osc_config.mix_ratios[index + 1] ELSE PyFloat(R(1)),
     detune |-> osc_config.detune]

_add_oscillator_nodes(preset) ==
    [i \in 1..Len(preset.oscillator.types) |->
        GraphNode(NodeId("osc", i - 1, preset.oscillator.types[i]), "oscillator",
                  _get_oscillator_params(preset.oscillator.types[i], preset.oscillator, i - 1))]

\* the three envelope times, or the exception of the first one that fails to parse
EnvelopeTimes(preset) ==
    LET Times(a, d, r) ==
            [raised |-> a.raised \/ d.raised \/ r.raised, attack |-> a.v, decay |-> d.v, release |-> r.v]
    IN Times(_parse_time_to_seconds(preset.envelope.attack),
             _parse_time_to_seconds(preset.envelope.decay),
             _parse_time_to_seconds(preset.envelope.release))

_add_envelope_nodes(preset) ==
    LET Node(t) ==
            <<GraphNode(NodeId("env_main", 0, ""), "envelope",
                        [attack |-> PyFloat(t.attack), decay |-> PyFloat(t.decay),
                         sustain |-> FloatOr(preset.envelope.sustain, Rat(7, 10)),
                         release |-> PyFloat(t.release)])>>
    IN Node(EnvelopeTimes(preset))

_add_filter_nodes(preset) ==
    <<GraphNode(NodeId("filter_main", 0, ""), "filter",
                [cutoff |-> PyFloat(_parse_frequency_to_hz(preset.filter.cutoff).v),
                 resonance |-> FloatOr(preset.filter.resonance, Rat(1, 2)),
                 envelope_amount |-> FloatOr(preset.filter.envelope_amount, R(0))])>>

_get_effect_params(effect) ==
    LET names == {"type", "mix"}
                 \cup (IF effect.feedback.k # "none" THEN {"feedback"} ELSE {})
                 \cup (IF effect.time.k # "none" THEN {"time"} ELSE {})
                 \cup (IF effect.gain.k # "none" THEN {"gain"} ELSE {})
    IN [p \in names |->
          CASE p = "type" -> effect.type
            [] p = "mix" -> FloatOr(effect.mix, Rat(1, 2))
            [] p = "feedback" -> FloatOr(effect.feedback, Rat(3, 10))
            [] p = "time" -> PyFloat(_parse_time_to_seconds(effect.time).v)
            [] p = "gain" -> FloatOr(effect.gain, Rat(1, 2))]

EffectRaises(effect) == effect.time.k # "none" /\ _parse_time_to_seconds(effect.time).raised

_add_effect_nodes(preset) ==
    [i \in 1..Len(preset.fx) |->
        GraphNode(NodeId("fx", i - 1, preset.fx[i].type), "effect", _get_effect_params(preset.fx[i]))]

_add_spatial_nodes ==
    <<GraphNode(NodeId("stereo_width", 0, ""), "stereo", [width |-> PyFloat(R(1)), pan |-> PyFloat(R(0))])>>

_add_limiter_nodes ==
    <<GraphNode(NodeId("limiter_tp", 0, ""), "limiter",
                [threshold |-> PyFloat(R(-1)), release |-> PyFloat(Rat(1, 10)),
                 lookahead |-> PyFloat(Rat(5, 1000))]),
      GraphNode(NodeId("clipper_soft", 0, ""), "clipper",
                [threshold |-> PyFloat(R(-3)), ratio |-> PyFloat(Rat(1, 10))])>>

NodesOfType(nodes, t) == SelectSeq(nodes, LAMBDA n : n.node_type = t)

\* a connection whose destination is lost: both ends name the source node
ConnectionToSource(from_node, from_port, to_node, to_port) ==
    <<from_node, from_port, from_node, to_port>>

Connection(from_node, from_port, to_node, to_port) == <<from_node, from_port, to_node, to_port>>

\* one tuple if cond holds, none otherwise
When(cond, conn) == IF cond THEN <<conn>> ELSE <<>>

_connect_signal_chain(nodes) ==
    LET osc_nodes == NodesOfType(nodes, "oscillator")
        env == NodesOfType(nodes, "envelope")
        filter == NodesOfType(nodes, "filter")
        fx_nodes == NodesOfType(nodes, "effect")
        stereo == NodesOfType(nodes, "stereo")
        limiter == NodesOfType(nodes, "limiter")
        clipper == NodesOfType(nodes, "clipper")
        \* current_node before the k-th effect, and after the last one
        current(k) == IF k = 1 THEN filter ELSE <<fx_nodes[k - 1]>>
        RECURSIVE fx_chain(_)
        fx_chain(k) ==
            IF k > Len(fx_nodes) THEN <<>>
            ELSE When(current(k) # <<>>,
                      Connection(current(k)[1].id, "audio_out", fx_nodes[k].id, "audio_in"))
                 \o fx_chain(k + 1)
        last == current(Len(fx_nodes) + 1)
    IN (IF osc_nodes # <<>> /\ filter # <<>>
        THEN [i \in 1..Len(osc_nodes) |->
                 Connection(osc_nodes[i].id, "audio_out", filter[1].id, "audio_in")]
        ELSE <<>>)
       \o When(env # <<>> /\ filter # <<>>,
               Connection(env[1].id, "env_out", filter[1].id, "mod_in"))
       \o fx_chain(1)
       \o When(last # <<>> /\ stereo # <<>>,
               Connection(last[1].id, "audio_out", stereo[1].id, "audio_in"))
       \o (IF stereo # <<>> /\ clipper # <<>>
           THEN <<Connection(stereo[1].id, "left_out", clipper[1].id, "audio_in"),
                  Connection(stereo[1].id, "right_out", clipper[1].id, "audio_in")>>
           ELSE <<>>)
       \o When(clipper # <<>> /\ limiter # <<>>,
               Connection(clipper[1].id, "audio_out", limiter[1].id, "audio_in"))

lfo_node == GraphNode(NodeId("lfo_main", 0, ""), "lfo",
                      [frequency |-> PyFloat(Rat(1, 2)), waveform |-> "sine", depth |-> PyFloat(Rat(1, 10))])

\* a routing that also feeds the filter back into the LFO
ModulationRoutingWithReturn(nodes) ==
    LET filter == NodesOfType(nodes, "filter")
    IN IF filter # <<>>
       THEN <<Connection(<<"lfo_main", 0, "">>, "lfo_out", filter[1].id, "mod_in"),
              Connection(filter[1].id, "audio_out", <<"lfo_main", 0, "">>, "mod_in")>>
       ELSE <<>>

\* the connections _add_modulation_routing appends, given the nodes with the LFO in
_add_modulation_routing(nodes) ==
    LET filter == NodesOfType(nodes, "filter")
    IN When(filter # <<>>, Connection(lfo_node.id, "lfo_out", filter[1].id, "mod_in"))

\* _has_feedback_loops: the nested has_cycle(node_id) with its two shared sets;
\* st = [visited, rec_stack, found], found being has_cycle's return value
RECURSIVE has_cycle(_, _, _)
RECURSIVE scan_connections(_, _, _, _)
scan_connections(connections, node_id, k, st) ==
    IF k > Len(connections) THEN st
    ELSE LET to_node == connections[k][3]
         IN IF connections[k][1] # node_id THEN scan_connections(connections, node_id, k + 1, st)
            ELSE IF to_node \in st.rec_stack THEN [st EXCEPT !.found = TRUE]
            ELSE IF to_node \notin st.visited
                 THEN LET sub == has_cycle(connections, to_node, st)
                      IN IF sub.found THEN sub
                         ELSE scan_connections(connections, node_id, k + 1, sub)
                 ELSE scan_connections(connections, node_id, k + 1, st)

\* a has_cycle that leaves node_id on rec_stack when it returns
HasCycleKeepingStack(connections, node_id, st) ==
    scan_connections(connections, node_id, 1,
                     [visited |-> st.visited \cup {node_id},
                      rec_stack |-> st.rec_stack \cup {node_id}, found |-> FALSE])

has_cycle(connections, node_id, st) ==
    LET entered == [visited |-> st.visited \cup {node_id},
                    rec_stack |-> st.rec_stack \cup {node_id}, found |-> FALSE]
        after == scan_connections(connections, node_id, 1, entered)
    IN IF after.found THEN after ELSE [after EXCEPT !.rec_stack = @ \ {node_id}]

RECURSIVE visit_nodes(_, _, _)
visit_nodes(g, i, st) ==
    IF i > Len(g.nodes) THEN FALSE
    ELSE IF g.nodes[i].id \notin st.visited
         THEN LET sub == has_cycle(g.connections, g.nodes[i].id, st)
              IN IF sub.found THEN TRUE ELSE visit_nodes(g, i + 1, sub)
         ELSE visit_nodes(g, i + 1, st)

_has_feedback_loops(g) ==
    visit_nodes(g, 1, [visited |-> {}, rec_stack |-> {}, found |-> FALSE])

Error(msg, arg) == [msg |-> msg, arg |-> arg]

FeedbackLoopError == Error("Feedback loop detected in graph", <<>>)

\* node.parameters.get(name, default)
Param(node, name, default) ==
    IF name \in DOMAIN node.parameters THEN node.parameters[name].r ELSE default

NodeRangeErrors(node) ==
    IF node.node_type = "filter" THEN
        LET cutoff == Param(node, "cutoff", R(1000))
            resonance == Param(node, "resonance", R(0))
        IN When(RLt(cutoff, R(20)) \/ RGt(cutoff, R(20000)),
                Error("Filter cutoff {cutoff}Hz out of range [20, 20000]", cutoff))
           \o When(RGt(resonance, Rat(9, 10)),
                   Error("Filter resonance {resonance} exceeds maximum 0.9", resonance))
    ELSE IF node.node_type = "effect" /\ "type" \in DOMAIN node.parameters
            /\ node.parameters["type"] = "delay" THEN
        LET feedback == Param(node, "feedback", R(0))
        IN When(RGt(feedback, Rat(85, 100)),
                Error("Delay feedback {feedback} exceeds maximum 0.85", feedback))
    ELSE <<>>

\* the lists of a list, joined in order
RECURSIVE Concat(_)
Concat(lists) == IF lists = <<>> THEN <<>> ELSE Head(lists) \o Concat(Tail(lists))

_validate_graph(g) ==
    LET connected_nodes == {g.connections[i][1] : i \in 1..Len(g.connections)}
                           \cup {g.connections[i][3] : i \in 1..Len(g.connections)}
        Disconnected(node) ==
            When(node.id \notin connected_nodes /\ node.node_type \notin {"lfo", "envelope"},
                 Error("Node {node.id} is not connected to signal chain", node.id))
        Outcome(errors) == [validation_passed |-> Len(errors) = 0, validation_errors |-> errors]
    IN Outcome(When(_has_feedback_loops(g), FeedbackLoopError)
               \o Concat([i \in 1..Len(g.nodes) |-> NodeRangeErrors(g.nodes[i])])
               \o Concat([i \in 1..Len(g.nodes) |-> Disconnected(g.nodes[i])]))

\* graph.validation_passed and graph.validation_errors as _validate_graph sets them
Validated(g) ==
    LET Set(checked) == [g EXCEPT !.validation_passed = checked.validation_passed,
                                  !.validation_errors = checked.validation_errors]
    IN Set(_validate_graph(g))

\* the Graph of the signal chain `chain`: the LFO appended, connected, validated
GraphOf(chain) ==
    Validated([Graph EXCEPT !.nodes = Append(chain, lfo_node),
                            !.connections = _connect_signal_chain(chain)
                                            \o _add_modulation_routing(Append(chain, lfo_node))])

\* build_graph(preset) on a builder whose busses are `busses`: the Graph returned
\* (or the exception raised) and the builder's busses afterwards
build_graph(preset, busses) ==
    LET with_env == [busses EXCEPT !.mod_env = Append(@, NodeId("env_main", 0, ""))]
    IN IF EnvelopeTimes(preset).raised
       THEN [raised |-> TRUE, graph |-> Graph, virtual_busses |-> busses]
       ELSE IF \/ _parse_frequency_to_hz(preset.filter.cutoff).raised
               \/ \E i \in 1..Len(preset.fx) : EffectRaises(preset.fx[i])
       THEN [raised |-> TRUE, graph |-> Graph, virtual_busses |-> with_env]
       ELSE [raised |-> FALSE,
             graph |-> GraphOf(_add_oscillator_nodes(preset) \o _add_envelope_nodes(preset)
                               \o _add_filter_nodes(preset) \o _add_effect_nodes(preset)
                               \o _add_spatial_nodes \o _add_limiter_nodes),
             virtual_busses |-> [with_env EXCEPT !.mod_lfo = Append(@, lfo_node.id)]]

-----------------------------------------------------------------------------
(* Presets handed to build_graph *)

EffectConfig(type, mix, feedback, time, gain) ==
    [type |-> type, mix |-> mix, feedback |-> feedback, time |-> time, gain |-> gain]

Preset(name, role, types, mix_ratios, detune, attack, decay, sustain, release, cutoff, resonance, envelope_amount, fx) ==
    [name |-> name, role |-> role,
     oscillator |-> [types |-> types, mix_ratios |-> mix_ratios, detune |-> detune],
     envelope |-> [attack |-> attack, decay |-> decay, sustain |-> sustain, release |-> release],
     filter |-> [cutoff |-> cutoff, resonance |-> resonance, envelope_amount |-> envelope_amount],
     fx |-> fx,
     validation_issues |-> <<>>]

SeqsUpTo(S, n) == UNION {[1..k -> S] : k \in 0..n}

FxSamples ==
    {EffectConfig("delay", PyFloat(Rat(1, 2)), PyFloat(Rat(95, 100)), PyFloat(Rat(1, 4)), PyNone),
     EffectConfig("reverb", PyFloat(R(1)), PyNone, PyNone, PyNone)}

CutoffSamples ==
    {PyFloat(R(1000)), PyFloat(R(25000)), PyStr(<<"2", "5", "k", "H", "z">>)}

\* n oscillator types
OscTypes(n) == [i \in 1..n |-> IF i % 2 = 1 THEN "sine" ELSE "sawtooth"]

BuildPreset(n, cutoff, fx) ==
    Preset("p", "pad", OscTypes(n), <<PyFloat(R(1))>>, PyFloat(R(1)),
           PyFloat(Rat(5, 100)), PyFloat(Rat(1, 10)), PyFloat(Rat(7, 10)), PyFloat(Rat(1, 2)),
           cutoff, PyFloat(Rat(3, 10)), PyFloat(R(0)), fx)

BuildPresets ==
    {BuildPreset(n, cutoff, fx) :
        n \in 0..MaxOsc, cutoff \in CutoffSamples, fx \in SeqsUpTo(FxSamples, MaxFx)}

-----------------------------------------------------------------------------
(* normalizer.UnitNormalizer: the value conversions *)

Issue(msg, param_name, value) == [msg |-> msg, param |-> param_name, value |-> value]

\* a param_name: "envelope.attack" and the like, or f"fx[{i}].{field}"
Name(text) == <<text, 0, "">>
FxName(i, field) == <<"fx[{i}].", i, field>>

\* what a conversion produces: the value returned with the issues appended, or an exception
Ok(r, issues) == [raised |-> FALSE, v |-> r, issues |-> issues]
Fail == [raised |-> TRUE, v |-> NaN, issues |-> <<>>]

\* a float() result as a conversion result
OfFloat(f) == IF f.raised THEN Fail ELSE Ok(f.v, <<>>)

\* (value[0] + value[1]) / 2.0; IndexError on a list shorter than two
Average(value) ==
    IF Len(value.l) < 2 THEN Raised ELSE Returned(RDiv(RAdd(value.l[1], value.l[2]), R(2)))

\* a reading of times that takes every bare number as milliseconds
TimeAsMilliseconds(time_value, param_name) == OfFloat(_parse_time_to_seconds(time_value))

_normalize_time(time_value, param_name) ==
    LET s == time_value.s
        dash == IndexOf(s, "-")
        Recovered(f, msg) ==
            IF f.raised THEN Ok(R(0), <<Issue(msg, param_name, time_value)>>) ELSE Ok(f.v, <<>>)
        Mean(lo, hi) ==
            IF lo.raised \/ hi.raised THEN Raised
            ELSE Returned(RDiv(RDiv(RAdd(lo.v, hi.v), R(2)), R(1000)))
        Scaled(f) ==
            IF f.raised THEN Raised
            ELSE Returned(IF RLt(f.v, R(10)) THEN RDiv(f.v, R(1000)) ELSE f.v)
    IN IF IsNumber(time_value)
       THEN Ok(IF RLt(time_value.r, R(10)) THEN RDiv(time_value.r, R(1000)) ELSE time_value.r, <<>>)
       ELSE IF time_value.k = "str" THEN
           IF EndsWith(s, <<"m", "s">>) THEN OfFloat(ResultDiv(float(DropLast(s, 2)), R(1000)))
           ELSE IF EndsWith(s, <<"s">>) THEN OfFloat(float(DropLast(s, 1)))
           ELSE IF dash > 0
           THEN Recovered(IF Cardinality({i \in 1..Len(s) : s[i] = "-"}) = 1
                          THEN Mean(float(SubSeq(s, 1, dash - 1)), float(SubSeq(s, dash + 1, Len(s))))
                          ELSE ResultDiv(float(s), R(1000)),
                          "Invalid time range format for {param_name}: {time_value}")
           ELSE Recovered(Scaled(float(s)), "Invalid time format for {param_name}: {time_value}")
       ELSE IF time_value.k = "list" THEN OfFloat(ResultDiv(Average(time_value), R(1000)))
       ELSE Ok(R(0), <<Issue("Invalid time value for {param_name}: {time_value}", param_name, time_value)>>)

_normalize_frequency(freq_value, param_name) ==
    LET s == freq_value.s
        Recovered(f, msg) ==
            IF f.raised THEN Ok(R(1000), <<Issue(msg, param_name, freq_value)>>) ELSE Ok(f.v, <<>>)
    IN IF IsNumber(freq_value) THEN Ok(freq_value.r, <<>>)
       ELSE IF freq_value.k = "str" THEN
           IF EndsWith(s, <<"H", "z">>) THEN OfFloat(float(DropLast(s, 2)))
           ELSE IF EndsWith(s, <<"k", "H", "z">>) THEN OfFloat(ResultMul(float(DropLast(s, 3)), R(1000)))
           ELSE Recovered(float(s), "Invalid frequency format for {param_name}: {freq_value}")
       ELSE IF freq_value.k = "list" THEN OfFloat(Average(freq_value))
       ELSE Ok(R(1000), <<Issue("Invalid frequency value for {param_name}: {freq_value}", param_name, freq_value)>>)

_normalize_percentage(value, param_name) ==
    LET Percent(avg) ==
            IF avg.raised THEN Fail
            ELSE Ok(IF RGt(avg.v, R(1)) THEN RDiv(avg.v, R(100)) ELSE avg.v, <<>>)
    IN IF IsNumber(value) THEN Percent(Returned(value.r))
       ELSE IF value.k = "list" THEN Percent(Average(value))
       ELSE Ok(Rat(1, 2), <<Issue("Invalid percentage value for {param_name}: {value}", param_name, value)>>)

\* 2.0 ** x: exact where x is an integer, interpolated linearly between two integers
RECURSIVE Pow2(_)
Pow2(k) == IF k = 0 THEN R(1) ELSE IF k > 0 THEN RMul(R(2), Pow2(k - 1)) ELSE RDiv(Pow2(k + 1), R(2))

exp2(x) ==
    IF IsNaN(x) THEN NaN
    ELSE RMul(Pow2(x.n \div x.d), RAdd(R(1), RSub(x, R(x.n \div x.d))))

\* math.log10(x) of x > 0: exact where x is a power of ten, interpolated linearly between two
RECURSIVE log10(_)
log10(x) ==
    IF IsNaN(x) THEN NaN
    ELSE IF RGe(x, R(10)) THEN RAdd(R(1), log10(RDiv(x, R(10))))
    ELSE IF RLt(x, R(1)) THEN RSub(log10(RMul(x, R(10))), R(1))
    ELSE RDiv(RSub(x, R(1)), R(9))

_normalize_detune(detune_value, param_name) ==
    LET Ratio(cents) ==
            IF cents.raised THEN Fail ELSE Ok(exp2(RDiv(cents.v, R(1200))), <<>>)
    IN IF IsNumber(detune_value) THEN Ratio(Returned(detune_value.r))
       ELSE IF detune_value.k = "list" THEN Ratio(Average(detune_value))
       ELSE Ok(R(1), <<Issue("Invalid detune value for {param_name}: {detune_value}", param_name, detune_value)>>)

_normalize_gain(gain_value, param_name) ==
    LET Decibel(avg) ==
            IF avg.raised THEN Fail
            ELSE Ok(IF RGt(avg.v, R(0)) THEN RMul(R(20), log10(avg.v)) ELSE R(-60), <<>>)
    IN IF IsNumber(gain_value) THEN Decibel(Returned(gain_value.r))
       ELSE IF gain_value.k = "list" THEN Decibel(Average(gain_value))
       ELSE Ok(R(0), <<Issue("Invalid gain value for {param_name}: {gain_value}", param_name, gain_value)>>)

\* sum(float_ratios)
RECURSIVE sum(_)
sum(rs) == IF rs = <<>> THEN R(0) ELSE RAdd(sum(DropLast(rs, 1)), rs[Len(rs)])

_normalize_mix_ratios(ratios, param_name) ==
    LET float_ratios ==
            [i \in 1..Len(ratios) |->
                IF IsNumber(ratios[i]) THEN ratios[i].r
                ELSE IF ratios[i].k = "list" THEN Average(ratios[i]).v
                ELSE R(1)]
        Scale(total) ==
            [i \in 1..Len(ratios) |->
                PyFloat(IF RGt(total, R(0)) THEN RDiv(float_ratios[i], total) ELSE R(1))]
    IN IF ratios = <<>> THEN Ok(<<PyFloat(R(1))>>, <<>>)
       ELSE IF \E i \in 1..Len(ratios) : ratios[i].k = "list" /\ Average(ratios[i]).raised THEN Fail
       ELSE Ok(Scale(sum(float_ratios)),
               Concat([i \in 1..Len(ratios) |->
                          When(~IsNumber(ratios[i]) /\ ratios[i].k # "list",
                               Issue("Invalid mix ratio at index {i} for {param_name}: {ratio}",
                                     param_name, ratios[i]))]))

\* _clamp_value applied to the value of the conversion result `res`
_clamp_value(res, min_val, max_val, param_name) ==
    IF res.raised THEN Fail
    ELSE IF RLt(res.v, min_val)
    THEN Ok(min_val, Append(res.issues, Issue("Clamped {param_name} from {value} to {min_val}", param_name, PyFloat(res.v))))
    ELSE IF RGt(res.v, max_val)
    THEN Ok(max_val, Append(res.issues, Issue("Clamped {param_name} from {value} to {max_val}", param_name, PyFloat(res.v))))
    ELSE res

-----------------------------------------------------------------------------
(* normalizer.UnitNormalizer: normalize *)

_normalize_envelope(envelope) ==
    LET Config(attack, decay, sustain, release) ==
            [raised |-> attack.raised \/ decay.raised \/ sustain.raised \/ release.raised,
             v |-> [attack |-> PyFloat(attack.v), decay |-> PyFloat(decay.v),
                    sustain |-> PyFloat(sustain.v), release |-> PyFloat(release.v)],
             issues |-> attack.issues \o decay.issues \o sustain.issues \o release.issues]
    IN Config(_normalize_time(envelope.attack, Name("envelope.attack")),
              _normalize_time(envelope.decay, Name("envelope.decay")),
              _normalize_percentage(envelope.sustain, Name("envelope.sustain")),
              _normalize_time(envelope.release, Name("envelope.release")))

_normalize_filter(filter_config) ==
    LET Config(cutoff, resonance, env_amount) ==
            [raised |-> cutoff.raised \/ resonance.raised \/ env_amount.raised,
             v |-> [cutoff |-> PyFloat(cutoff.v), resonance |-> PyFloat(resonance.v),
                    envelope_amount |-> PyFloat(env_amount.v)],
             issues |-> cutoff.issues \o resonance.issues \o env_amount.issues]
    IN Config(_normalize_frequency(filter_config.cutoff, Name("filter.cutoff")),
              _normalize_percentage(filter_config.resonance, Name("filter.resonance")),
              _normalize_percentage(filter_config.envelope_amount, Name("filter.envelope_amount")))

_normalize_oscillator(oscillator) ==
    LET Config(detune, mix_ratios) ==
            [raised |-> detune.raised \/ mix_ratios.raised,
             v |-> [types |-> oscillator.types, mix_ratios |-> mix_ratios.v,
                    detune |-> PyFloat(detune.v)],
             issues |-> detune.issues \o mix_ratios.issues]
    IN Config(_normalize_detune(oscillator.detune, Name("oscillator.detune")),
              _normalize_mix_ratios(oscillator.mix_ratios, Name("oscillator.mix_ratios")))

\* normalized_params.get(name) of an optional effect parameter
Optional(value, res) == IF value.k = "none" THEN PyNone ELSE PyFloat(res.v)

\* one pass of the loop of _normalize_effects, for effects[i]
NormalizedEffect(effect, i) ==
    LET Config(mix, feedback, time, gain) ==
            [raised |-> \/ mix.raised
                        \/ effect.feedback.k # "none" /\ feedback.raised
                        \/ effect.time.k # "none" /\ time.raised
                        \/ effect.gain.k # "none" /\ gain.raised,
             v |-> EffectConfig(effect.type, PyFloat(mix.v), Optional(effect.feedback, feedback),
                                Optional(effect.time, time), Optional(effect.gain, gain)),
             issues |-> mix.issues
                        \o (IF effect.feedback.k # "none" THEN feedback.issues ELSE <<>>)
                        \o (IF effect.time.k # "none" THEN time.issues ELSE <<>>)
                        \o (IF effect.gain.k # "none" THEN gain.issues ELSE <<>>)]
    IN Config(_normalize_percentage(effect.mix, FxName(i, "mix")),
              _clamp_value(_normalize_percentage(effect.feedback, FxName(i, "feedback")),
                           R(0), Rat(85, 100), FxName(i, "feedback")),
              _normalize_time(effect.time, FxName(i, "time")),
              _clamp_value(_normalize_gain(effect.gain, FxName(i, "gain")),
                           R(-60), R(12), FxName(i, "gain")))

_normalize_effects(effects) ==
    LET Collected(results) ==
            [raised |-> \E i \in 1..Len(results) : results[i].raised,
             v |-> [i \in 1..Len(results) |-> results[i].v],
             issues |-> Concat([i \in 1..Len(results) |-> results[i].issues])]
    IN Collected([i \in 1..Len(effects) |-> NormalizedEffect(effects[i], i - 1)])

\* the keywords of _determine_role that occur in name.lower()
KeywordsIn(name) ==
    CASE name = "Warm Pad" -> {"pad", "warm"}
      [] name = "Deep Bass" -> {"bass"}
      [] name = "Noise FX" -> {"fx"}
      [] name = "Glass Bell" -> {"bell"}
      [] name = "Warm Bass" -> {"bass", "warm"}
      [] name = "Ambient Drone" -> {"ambient", "drone"}
      [] name = "Sharp Lead" -> {"arp", "lead"}
      [] name = "Harp" -> {"arp"}
      [] name = "Soft Pluck" -> {"pluck", "soft"}
      [] name = "Zither" -> {}
      [] name = "Crunchy Texture" -> {"crunchy", "texture"}
      [] name = "Rhythmic Chord" -> {"chord", "rhythm", "rhythmic"}
      [] name = "Clear Drone" -> {"clear", "drone"}
      [] name = "Karplus" -> {"arp", "karplus"}
      [] OTHER -> {}

\* _determine_role without its first test, the explicit role being overridden by the name
RoleOfName(preset) ==
    LET Has(keywords) == KeywordsIn(preset.name) \cap keywords # {}
    IN IF Has({"pad", "warm", "calm", "ambient"}) THEN "pad"
       ELSE IF Has({"bass", "punchy", "driving"}) THEN "bass"
       ELSE IF Has({"lead", "bright", "energetic", "supersaw"}) THEN "lead"
       ELSE IF Has({"fx", "chaotic", "experimental"}) THEN "fx"
       ELSE IF preset.role # "none" THEN preset.role
       ELSE "pad"

_determine_role(preset) ==
    LET Has(keywords) == KeywordsIn(preset.name) \cap keywords # {}
    IN IF preset.role # "none" THEN preset.role
       ELSE IF Has({"pad", "warm", "calm", "ambient"}) THEN "pad"
       ELSE IF Has({"bass", "punchy", "driving"}) THEN "bass"
       ELSE IF Has({"lead", "bright", "energetic", "supersaw"}) THEN "lead"
       ELSE IF Has({"fx", "chaotic", "experimental"}) THEN "fx"
       ELSE IF Has({"texture", "evolving", "tense"}) THEN "texture"
       ELSE IF Has({"arp", "plucky", "rhythmic"}) THEN "arp"
       ELSE IF Has({"drone", "airy", "ambient"}) THEN "drone"
       ELSE IF Has({"rhythm", "crunchy", "aggressive"}) THEN "rhythm"
       ELSE IF Has({"bell", "glassy", "clear"}) THEN "bell"
       ELSE IF Has({"chord", "soft", "lush"}) THEN "chord"
       ELSE IF Has({"pluck", "karplus"}) THEN "pluck"
       ELSE "pad"

\* role_defaults[role]['env'], for the roles that have one
_get_role_defaults ==
    [pad |-> [atk |-> PyStr(<<"2", "0", "0", "-", "8", "0", "0", "m", "s">>),
              rel |-> PyStr(<<"6", "0", "0", "-", "3", "0", "0", "0", "m", "s">>)],
     bass |-> [atk |-> PyStr(<<"5", "-", "4", "0", "m", "s">>),
               rel |-> PyStr(<<"8", "0", "-", "2", "5", "0", "m", "s">>)],
     lead |-> [atk |-> PyStr(<<"5", "-", "1", "2", "0", "m", "s">>),
               rel |-> PyStr(<<"1", "2", "0", "-", "6", "0", "0", "m", "s">>)]]

\* the envelope as _apply_role_defaults leaves it
_apply_role_defaults(envelope, role) ==
    LET short_attack == RLt(envelope.attack.r, Rat(1, 1000))
        short_release == RLt(envelope.release.r, Rat(1, 1000))
        Config(attack, release) ==
            [raised |-> (short_attack /\ attack.raised) \/ (short_release /\ release.raised),
             v |-> [envelope EXCEPT !.attack = IF short_attack THEN PyFloat(attack.v) ELSE @,
                                    !.release = IF short_release THEN PyFloat(release.v) ELSE @],
             issues |-> (IF short_attack THEN attack.issues ELSE <<>>)
                        \o (IF short_release THEN release.issues ELSE <<>>)]
    IN IF role \in DOMAIN _get_role_defaults
       THEN Config(_normalize_time(_get_role_defaults[role].atk, Name("role_default.attack")),
                   _normalize_time(_get_role_defaults[role].rel, Name("role_default.release")))
       ELSE [raised |-> FALSE, v |-> envelope, issues |-> <<>>]

\* the issues _validate_safety_constraints appends
_validate_safety_constraints(filter_config, effects) ==
    LET cutoff == filter_config.cutoff.r
        resonance == filter_config.resonance.r
        EffectIssues(i) ==
            When(effects[i].feedback.k # "none" /\ RGt(effects[i].feedback.r, Rat(85, 100)),
                 Issue("Effect {i} feedback {effect.feedback} exceeds safe maximum 0.85",
                       FxName(i - 1, "feedback"), effects[i].feedback))
            \o When(effects[i].gain.k # "none" /\ RGt(effects[i].gain.r, R(12)),
                    Issue("Effect {i} gain {effect.gain}dB exceeds safe maximum 12dB",
                          FxName(i - 1, "gain"), effects[i].gain))
    IN When(RLt(cutoff, R(20)) \/ RGt(cutoff, R(20000)),
            Issue("Filter cutoff {filter_config.cutoff}Hz outside safe range [20, 20000]",
                  Name("filter.cutoff"), filter_config.cutoff))
       \o When(RGt(resonance, Rat(9, 10)),
               Issue("Filter resonance {filter_config.resonance} exceeds safe maximum 0.9",
                     Name("filter.resonance"), filter_config.resonance))
       \o Concat([i \in 1..Len(effects) |-> EffectIssues(i)])

\* normalize(preset): the NormalizedPreset returned, or the exception raised
normalize(preset) ==
    LET Build(envelope, filter, oscillator, fx) ==
            LET Complete(defaulted) ==
                    IF envelope.raised \/ filter.raised \/ oscillator.raised \/ fx.raised
                       \/ defaulted.raised
                    THEN [raised |-> TRUE, preset |-> preset]
                    ELSE [raised |-> FALSE,
                          preset |-> [name |-> preset.name, role |-> _determine_role(preset),
                                      oscillator |-> oscillator.v, envelope |-> defaulted.v,
                                      filter |-> filter.v, fx |-> fx.v,
                                      validation_issues |->
                                          envelope.issues \o filter.issues \o oscillator.issues
                                          \o fx.issues \o defaulted.issues
                                          \o _validate_safety_constraints(filter.v, fx.v)]]
            IN Complete(IF envelope.raised THEN envelope
                        ELSE _apply_role_defaults(envelope.v, _determine_role(preset)))
    IN Build(_normalize_envelope(preset.envelope), _normalize_filter(preset.filter),
             _normalize_oscillator(preset.oscillator), _normalize_effects(preset.fx))

-----------------------------------------------------------------------------
(* core_models.JsonPresetParser and AudioPresetGenerator.load_presets *)

\* config.get(key, default), an absent key being None here
Get(value, default) == IF value.k = "none" THEN default ELSE value

SynthesisType ==
    {"subtractive", "additive", "fm", "wavetable", "granular", "physical_modeling",
     "modular", "hybrid_ai", "ensemble_chorus"}

\* the JsonPreset of the item (name, config) of 'groups'; ValueError on an unknown synthesis type
_parse_group_config(name, config) ==
    IF config.synthesis_type \notin SynthesisType THEN Raised
    ELSE Returned(Preset(name, "none", <<"sine">>, <<PyFloat(R(1))>>, PyFloat(R(0)),
                         Get(config.attack, PyFloat(R(0))), PyFloat(R(0)), PyFloat(R(1)), PyFloat(R(0)),
                         Get(config.cutoff, PyFloat(R(1000))), PyFloat(R(0)), PyFloat(R(0)), <<>>))

\* the loop of parse_from_file over data['groups'].items(), `parsed` being its list so far
RECURSIVE parse_groups(_, _, _)
parse_groups(items, i, parsed) ==
    LET Appended(preset) ==
            IF preset.raised THEN Raised ELSE parse_groups(items, i + 1, Append(parsed, preset.v))
    IN IF i > Len(items) THEN Returned(parsed)
       ELSE Appended(_parse_group_config(items[i].name, items[i].config))

\* parse_from_file(file_path): open() and json.load() raise on an unreadable file and on
\* malformed JSON; a document without a known top-level key holds no presets
parse_from_file(file_path) ==
    IF ~file_path.readable \/ ~file_path.well_formed THEN Raised
    ELSE IF file_path.key = "groups" THEN parse_groups(file_path.items, 1, <<>>)
    ELSE Returned(<<>>)

\* the loop of load_presets, all_presets being its list before file_paths[i]
RECURSIVE load_files(_, _, _)
load_files(paths, i, all_presets) ==
    LET Extended(parsed) == IF parsed.raised THEN all_presets ELSE all_presets \o parsed.v
    IN IF i > Len(paths) THEN all_presets
       ELSE load_files(paths, i + 1, Extended(parse_from_file(paths[i])))

\* a load_presets that gives up at the first file that fails to parse
LoadUntilFailure(paths) ==
    LET failing == {i \in 1..Len(paths) : parse_from_file(paths[i]).raised}
        first == IF failing = {} THEN Len(paths) + 1 ELSE CHOOSE i \in failing : \A j \in failing : i <= j
    IN [raised |-> FALSE, presets |-> load_files(SubSeq(paths, 1, first - 1), 1, <<>>)]

\* load_presets(file_paths): self.presets afterwards, or the exception raised
load_presets(paths) == [raised |-> FALSE, presets |-> load_files(paths, 1, <<>>)]

-----------------------------------------------------------------------------
(* decision_heads: hash(), np.random and the heads *)

\* hash(): salted by the process secret; `content` is the integer the hashed bytes spell
hash(content) == (content * 31 + hash_seed * 17 + 7) % SeedSpace

\* the integer the bytes of a vector spell
RECURSIVE tobytes(_)
tobytes(vector) ==
    IF vector = <<>> THEN 1
    ELSE (tobytes(Tail(vector)) * 5 + Head(vector).n * 3 + Head(vector).d) % SeedSpace

\* np.random.seed(seed), and the generator after one draw
Seeded(seed) == [seed |-> seed, draws |-> 0]
Drawn(rng) == [rng EXCEPT !.draws = @ + 1]

\* the next draw of np.random.normal(0, 1) and of np.random.uniform(0, 1): functions of the
\* generator's state
StdNormal(rng) ==
    LET k == (rng.seed + rng.draws) % 5
    IN CASE k = 0 -> R(0) [] k = 1 -> R(1) [] k = 2 -> R(-1) [] k = 3 -> Rat(1, 2) [] OTHER -> R(-2)

Uniform01(rng) == Rat((rng.seed * 3 + rng.draws) % 4, 4)

\* np.clip(x, lo, hi)
clip(x, lo, hi) == IF RLt(x, lo) THEN lo ELSE IF RGt(x, hi) THEN hi ELSE x

\* floor of the square root, exact on perfect squares
RECURSIVE SqrtBetween(_, _, _)
SqrtBetween(n, lo, hi) ==
    IF lo >= hi THEN lo
    ELSE IF ((lo + hi + 1) \div 2) * ((lo + hi + 1) \div 2) <= n
    THEN SqrtBetween(n, (lo + hi + 1) \div 2, hi)
    ELSE SqrtBetween(n, lo, (lo + hi + 1) \div 2 - 1)

ISqrt(n) == SqrtBetween(n, 0, IF n < 46340 THEN n ELSE 46340)

\* np.linalg.norm(vector)
RECURSIVE SumSquares(_)
SumSquares(vector) ==
    IF vector = <<>> THEN R(0) ELSE RAdd(RMul(Head(vector), Head(vector)), SumSquares(Tail(vector)))

\* the square root of a rational: exact when numerator and denominator are squares
RSqrt(x) ==
    IF ISqrt(x.n) * ISqrt(x.n) = x.n /\ ISqrt(x.d) * ISqrt(x.d) = x.d
    THEN Rat(ISqrt(x.n), ISqrt(x.d))
    ELSE Rat(ISqrt(x.n * x.d), x.d)

norm(vector) == RSqrt(SumSquares(vector))

Context(query_vector, role, tempo, key) ==
    [query_vector |-> query_vector, role |-> role, tempo |-> tempo, key |-> key]

\* dict.get(role, default) on a table that lists pad, bass, lead and fx
RoleGet(table, role, default) == IF role \in DOMAIN table THEN table[role] ELSE default

_extract_base_value(query_vector) ==
    IF Len(query_vector) >= 4
    THEN RAdd(RAdd(RMul(query_vector[1], Rat(4, 10)), RMul(query_vector[2], Rat(3, 10))),
              RAdd(RMul(query_vector[3], Rat(2, 10)), RMul(query_vector[4], Rat(1, 10))))
    ELSE RDiv(sum(query_vector), R(Len(query_vector)))

_get_jitter_amount(role) ==
    CASE role = "pad" -> Rat(5, 100) [] role = "bass" -> Rat(3, 100) [] role = "lead" -> Rat(8, 100)
      [] role = "fx" -> Rat(15, 100) [] role = "texture" -> Rat(10, 100) [] role = "arp" -> Rat(12, 100)
      [] role = "drone" -> Rat(2, 100) [] role = "rhythm" -> Rat(8, 100) [] role = "bell" -> Rat(6, 100)
      [] role = "chord" -> Rat(5, 100) [] role = "pluck" -> Rat(7, 100) [] OTHER -> Rat(5, 100)

\* a value head that draws its jitter without seeding the generator first
ValueHeadUnseeded(head, context, rng) ==
    LET mu == clip(RMul(_extract_base_value(context.query_vector),
                        RoleGet(head.role_weights, context.role, R(1))), R(0), R(1))
        sigma == _get_jitter_amount(context.role)
        final_mu == clip(RAdd(mu, RMul(sigma, StdNormal(rng))), R(0), R(1))
    IN [decisions |-> <<[parameter_name |-> head.parameter_name, mu |-> mu, sigma |-> sigma,
                         min_val |-> head.min_val, max_val |-> head.max_val,
                         final_value |-> RAdd(head.min_val,
                                              RMul(final_mu, RSub(head.max_val, head.min_val)))]>>,
        rng |-> Drawn(rng)]

\* ValueHead.infer(context) with the generator in state rng: the decisions, the generator after
ValueHead_infer(head, context, rng) ==
    LET mu == clip(RMul(_extract_base_value(context.query_vector),
                        RoleGet(head.role_weights, context.role, R(1))), R(0), R(1))
        sigma == _get_jitter_amount(context.role)
        seeded == Seeded(hash(tobytes(context.query_vector)))
        final_mu == clip(RAdd(mu, RMul(sigma, StdNormal(seeded))), R(0), R(1))
    IN [decisions |-> <<[parameter_name |-> head.parameter_name, mu |-> mu, sigma |-> sigma,
                         min_val |-> head.min_val, max_val |-> head.max_val,
                         final_value |-> RAdd(head.min_val,
                                              RMul(final_mu, RSub(head.max_val, head.min_val)))]>>,
        rng |-> Drawn(seeded)]

available_targets ==
    <<"filter_cutoff", "filter_resonance", "oscillator_detune", "reverb_amount",
      "delay_amount", "distortion_amount", "stereo_width", "lfo_rate">>

role_adjustments ==
    [pad |-> [filter_cutoff |-> Rat(8, 10), filter_resonance |-> Rat(6, 10),
              oscillator_detune |-> Rat(4, 10), reverb_amount |-> Rat(7, 10)],
     bass |-> [filter_cutoff |-> Rat(9, 10), filter_resonance |-> Rat(7, 10),
               oscillator_detune |-> Rat(2, 10), reverb_amount |-> Rat(3, 10)],
     lead |-> [filter_cutoff |-> Rat(8, 10), filter_resonance |-> Rat(6, 10),
               oscillator_detune |-> Rat(7, 10), reverb_amount |-> Rat(5, 10)],
     fx |-> [filter_cutoff |-> Rat(9, 10), filter_resonance |-> Rat(8, 10),
             oscillator_detune |-> Rat(8, 10), reverb_amount |-> Rat(6, 10)]]

\* a connection probability without the base rate 0.3
ConnectionProbabilityOfAdjustment(context, target) ==
    LET target_adj == IF context.role \in DOMAIN role_adjustments
                      THEN RoleGet(role_adjustments[context.role], target, R(1))
                      ELSE R(1)
        activity_factor == RAdd(Rat(1, 2), RMul(Rat(1, 2), norm(context.query_vector)))
    IN clip(RMul(target_adj, activity_factor), R(0), R(1))

_calculate_connection_probability(context, target) ==
    LET target_adj == IF context.role \in DOMAIN role_adjustments
                      THEN RoleGet(role_adjustments[context.role], target, R(1))
                      ELSE R(1)
        activity_factor == RAdd(Rat(1, 2), RMul(Rat(1, 2), norm(context.query_vector)))
    IN clip(RMul(RMul(Rat(3, 10), target_adj), activity_factor), R(0), R(1))

_calculate_modulation_amount(context, target, probability) ==
    LET scaling ==
            CASE context.role = "pad" -> Rat(3, 10) [] context.role = "bass" -> Rat(2, 10)
              [] context.role = "lead" -> Rat(5, 10) [] context.role = "fx" -> Rat(8, 10)
              [] context.role = "texture" -> Rat(6, 10) [] context.role = "arp" -> Rat(7, 10)
              [] context.role = "drone" -> Rat(1, 10) [] context.role = "rhythm" -> Rat(6, 10)
              [] context.role = "bell" -> Rat(4, 10) [] context.role = "chord" -> Rat(3, 10)
              [] OTHER -> Rat(5, 10)
    IN clip(RMul(probability, scaling), R(0), R(1))

\* RoutingHead.infer(context): the loop from available_targets[i] on
RECURSIVE RoutingHead_infer(_, _, _, _)
RoutingHead_infer(source, context, i, rng) ==
    LET target == available_targets[i]
        seeded == Seeded(hash(tobytes(context.query_vector) * 11 + i))
        final_prob == clip(RMul(_calculate_connection_probability(context, target),
                                RAdd(Rat(8, 10), RMul(Rat(4, 10), Uniform01(seeded)))), R(0), R(1))
        Rest(rest) ==
            [decisions |-> When(RGt(final_prob, Rat(1, 2)),
                                [source |-> source, target |-> target, enabled |-> TRUE,
                                 amount |-> _calculate_modulation_amount(context, target, final_prob)])
                           \o rest.decisions,
             rng |-> rest.rng]
    IN IF i > Len(available_targets) THEN [decisions |-> <<>>, rng |-> rng]
       ELSE Rest(RoutingHead_infer(source, context, i + 1, Drawn(seeded)))

\* ValueHead(parameter_name, min_val, max_val, role_weights)
ValueHead(parameter_name, min_val, max_val, pad, bass, lead, fx) ==
    [parameter_name |-> parameter_name, min_val |-> min_val, max_val |-> max_val,
     role_weights |-> [pad |-> pad, bass |-> bass, lead |-> lead, fx |-> fx]]

value_heads ==
    <<ValueHead("filter_cutoff", R(20), R(20000), Rat(6, 10), Rat(3, 10), Rat(8, 10), R(1)),
      ValueHead("filter_resonance", R(0), Rat(9, 10), Rat(3, 10), Rat(6, 10), Rat(5, 10), Rat(8, 10)),
      ValueHead("oscillator_detune", R(0), Rat(1, 10), Rat(4, 10), Rat(1, 10), Rat(7, 10), Rat(9, 10)),
      ValueHead("reverb_amount", R(0), R(1), Rat(8, 10), Rat(2, 10), Rat(5, 10), Rat(7, 10)),
      ValueHead("delay_amount", R(0), R(1), Rat(4, 10), Rat(1, 10), Rat(6, 10), Rat(8, 10)),
      ValueHead("distortion_amount", R(0), R(1), Rat(1, 10), Rat(3, 10), Rat(5, 10), Rat(8, 10)),
      ValueHead("stereo_width", R(0), R(1), R(1), R(0), Rat(5, 10), R(1)),
      ValueHead("lfo_rate", Rat(1, 10), R(10), Rat(5, 10), Rat(3, 10), Rat(7, 10), R(1))>>

routing_heads == <<"mod_lfo", "mod_env", "macro_motion">>

\* the loops of infer_decisions over value_heads[i..] and routing_heads[i..]
RECURSIVE InferValues(_, _, _)
InferValues(context, i, rng) ==
    LET Rest(first) ==
            LET Joined(rest) == [decisions |-> first.decisions \o rest.decisions, rng |-> rest.rng]
            IN Joined(InferValues(context, i + 1, first.rng))
    IN IF i > Len(value_heads) THEN [decisions |-> <<>>, rng |-> rng]
       ELSE Rest(ValueHead_infer(value_heads[i], context, rng))

RECURSIVE InferRoutings(_, _, _)
InferRoutings(context, i, rng) ==
    LET Rest(first) ==
            LET Joined(rest) == [decisions |-> first.decisions \o rest.decisions, rng |-> rest.rng]
            IN Joined(InferRoutings(context, i + 1, first.rng))
    IN IF i > Len(routing_heads) THEN [decisions |-> <<>>, rng |-> rng]
       ELSE Rest(RoutingHead_infer(routing_heads[i], context, 1, rng))

\* an engine whose first value head draws from the generator as it finds it, nothing seeded
InferUnseeded(context, rng) ==
    [decisions |-> [value_decisions |-> ValueHeadUnseeded(value_heads[1], context, rng).decisions,
                    routing_decisions |-> <<>>,
                    jitter_seed |-> hash(tobytes(context.query_vector))],
     rng |-> Drawn(rng)]

\* validate_decisions(decisions): one issue per value or amount found outside its range
validate_decisions(decisions) ==
    LET OutOfRange(d) == RLt(d.final_value, d.min_val) \/ RGt(d.final_value, d.max_val)
        OutOfUnit(d) == RLt(d.amount, R(0)) \/ RGt(d.amount, R(1))
    IN SelectSeq(decisions.value_decisions, OutOfRange)
       \o SelectSeq(decisions.routing_decisions, OutOfUnit)

\* infer_decisions(context) with the generator in state rng: the Decisions, the generator after
infer_decisions(context, rng) ==
    LET jitter_seed == hash(tobytes(context.query_vector))
        Routed(values) ==
            LET Collected(routings) ==
                    [decisions |-> [value_decisions |-> values.decisions,
                                    routing_decisions |-> routings.decisions,
                                    jitter_seed |-> jitter_seed],
                     rng |-> routings.rng]
            IN Collected(InferRoutings(context, 1, values.rng))
    IN Routed(InferValues(context, 1, Seeded(jitter_seed)))

-----------------------------------------------------------------------------
(* roles_policies: RolePolicyManager *)

EnvelopePolicy(attack_min, attack_max, decay_min, decay_max, sustain_min, sustain_max, release_min, release_max) ==
    [attack_min |-> attack_min, attack_max |-> attack_max, decay_min |-> decay_min,
     decay_max |-> decay_max, sustain_min |-> sustain_min, sustain_max |-> sustain_max,
     release_min |-> release_min, release_max |-> release_max, tempo_scaling |-> TRUE]

FilterPolicy(cutoff_min, cutoff_max, resonance_min, resonance_max, envelope_amount_min, envelope_amount_max) ==
    [cutoff_min |-> cutoff_min, cutoff_max |-> cutoff_max, resonance_min |-> resonance_min,
     resonance_max |-> resonance_max, envelope_amount_min |-> envelope_amount_min,
     envelope_amount_max |-> envelope_amount_max]

\* RolePolicy: the fields that apply_policy reads or that scale times; tempo_scaling is
\* the RolePolicy's own flag, not the one of its EnvelopePolicy
RolePolicy(role, envelope, filter, tempo_scaling) ==
    [role |-> role, envelope |-> envelope, filter |-> filter, tempo_scaling |-> tempo_scaling]

\* self.policies after _load_default_policies()
policies ==
    [pad |-> RolePolicy("pad",
                EnvelopePolicy(Rat(1, 5), Rat(4, 5), Rat(2, 5), Rat(3, 5), Rat(3, 5), Rat(4, 5), Rat(3, 5), R(3)),
                FilterPolicy(R(400), R(1200), Rat(1, 10), Rat(3, 10), Rat(1, 5), Rat(1, 2)),
                TRUE),
     bass |-> RolePolicy("bass",
                EnvelopePolicy(Rat(1, 200), Rat(1, 25), Rat(2, 25), Rat(1, 4), Rat(7, 10), Rat(9, 10), Rat(2, 25), Rat(1, 4)),
                FilterPolicy(R(200), R(800), Rat(2, 5), Rat(7, 10), Rat(3, 10), Rat(3, 5)),
                TRUE),
     lead |-> RolePolicy("lead",
                EnvelopePolicy(Rat(1, 200), Rat(3, 25), Rat(3, 25), Rat(3, 5), Rat(4, 5), Rat(19, 20), Rat(3, 25), Rat(3, 5)),
                FilterPolicy(R(800), R(2000), Rat(3, 10), Rat(3, 5), Rat(2, 5), Rat(7, 10)),
                TRUE),
     fx |-> RolePolicy("fx",
                EnvelopePolicy(Rat(1, 10), Rat(1, 2), Rat(1, 5), R(1), Rat(3, 10), Rat(7, 10), Rat(1, 2), R(2)),
                FilterPolicy(R(200), R(8000), Rat(1, 5), Rat(4, 5), Rat(1, 2), Rat(9, 10)),
                FALSE),
     texture |-> RolePolicy("texture",
                EnvelopePolicy(Rat(1, 5), R(1), Rat(3, 10), Rat(3, 2), Rat(2, 5), Rat(4, 5), R(1), R(5)),
                FilterPolicy(R(300), R(2000), Rat(3, 10), Rat(7, 10), Rat(2, 5), Rat(4, 5)),
                TRUE),
     arp |-> RolePolicy("arp",
                EnvelopePolicy(Rat(1, 200), Rat(1, 50), Rat(1, 20), Rat(3, 10), Rat(3, 10), Rat(3, 5), Rat(1, 10), Rat(1, 2)),
                FilterPolicy(R(600), R(2000), Rat(1, 5), Rat(1, 2), Rat(1, 5), Rat(1, 2)),
                TRUE),
     drone |-> RolePolicy("drone",
                EnvelopePolicy(R(1), R(3), Rat(1, 2), R(2), Rat(4, 5), R(1), R(2), R(10)),
                FilterPolicy(R(100), R(800), Rat(1, 10), Rat(3, 10), Rat(1, 10), Rat(3, 10)),
                FALSE),
     rhythm |-> RolePolicy("rhythm",
                EnvelopePolicy(Rat(1, 1000), Rat(1, 100), Rat(1, 20), Rat(1, 5), Rat(1, 10), Rat(2, 5), Rat(1, 20), Rat(3, 10)),
                FilterPolicy(R(800), R(4000), Rat(2, 5), Rat(4, 5), Rat(3, 10), Rat(7, 10)),
                TRUE),
     bell |-> RolePolicy("bell",
                EnvelopePolicy(Rat(1, 100), Rat(1, 20), Rat(1, 5), Rat(3, 2), Rat(1, 10), Rat(3, 10), Rat(1, 2), R(3)),
                FilterPolicy(R(1500), R(8000), Rat(1, 5), Rat(1, 2), Rat(1, 10), Rat(2, 5)),
                TRUE),
     chord |-> RolePolicy("chord",
                EnvelopePolicy(Rat(1, 10), Rat(1, 2), Rat(1, 5), Rat(4, 5), Rat(3, 5), Rat(9, 10), Rat(1, 2), R(2)),
                FilterPolicy(R(400), R(1200), Rat(1, 10), Rat(2, 5), Rat(1, 5), Rat(1, 2)),
                TRUE),
     pluck |-> RolePolicy("pluck",
                EnvelopePolicy(Rat(1, 1000), Rat(1, 100), Rat(1, 10), Rat(1, 2), Rat(1, 5), Rat(1, 2), Rat(1, 5), R(1)),
                FilterPolicy(R(600), R(2000), Rat(1, 5), Rat(1, 2), Rat(3, 10), Rat(3, 5)),
                TRUE)]

get_policy(role) == IF role \in DOMAIN policies THEN policies[role] ELSE policies.pad

\* max(min_val, min(value, max_val))
_clamp_to_range(value, min_val, max_val) ==
    LET Max(inner) == IF RGt(inner, min_val) THEN inner ELSE min_val
    IN Max(IF RLt(max_val, value) THEN max_val ELSE value)

\* a time of the envelope clamped to the policy's range scaled by tempo_factor
ClampedTime(parsed, min_val, max_val, tempo_factor) ==
    IF parsed.raised THEN Raised
    ELSE Returned(_clamp_to_range(parsed.v, RMul(min_val, tempo_factor), RMul(max_val, tempo_factor)))

_apply_envelope_policy(envelope, policy, tempo) ==
    LET tempo_factor == IF policy.tempo_scaling THEN RDiv(R(120), tempo) ELSE R(1)
        Adjust(attack, decay, release) ==
            IF attack.raised \/ decay.raised \/ release.raised THEN Raised
            ELSE Returned([attack |-> attack.v, decay |-> decay.v,
                           sustain |-> _clamp_to_range(FloatOr(envelope.sustain, Rat(7, 10)).r,
                                                       policy.sustain_min, policy.sustain_max),
                           release |-> release.v])
    IN Adjust(ClampedTime(_parse_time_to_seconds(envelope.attack),
                          policy.attack_min, policy.attack_max, tempo_factor),
              ClampedTime(_parse_time_to_seconds(envelope.decay),
                          policy.decay_min, policy.decay_max, tempo_factor),
              ClampedTime(_parse_time_to_seconds(envelope.release),
                          policy.release_min, policy.release_max, tempo_factor))

_apply_filter_policy(filter_config, policy) ==
    LET Adjust(cutoff) ==
            IF cutoff.raised THEN Raised
            ELSE Returned([cutoff |-> _clamp_to_range(cutoff.v, policy.cutoff_min, policy.cutoff_max),
                           resonance |-> _clamp_to_range(FloatOr(filter_config.resonance, Rat(1, 2)).r,
                                                         policy.resonance_min, policy.resonance_max),
                           envelope_amount |->
                               _clamp_to_range(FloatOr(filter_config.envelope_amount, R(0)).r,
                                               policy.envelope_amount_min,
                                               policy.envelope_amount_max)])
    IN Adjust(_parse_frequency_to_hz(filter_config.cutoff))

\* apply_policy(preset, role, tempo, key): the adjustments that read the preset; the others
\* (curve, type, spatial, modulation) are constants of the policy, named here by its role
apply_policy(preset, role, tempo, key) ==
    LET Adjustments(envelope, filter) ==
            IF envelope.raised \/ filter.raised THEN Raised
            ELSE Returned([policy |-> get_policy(role).role, envelope |-> envelope.v,
                           filter |-> filter.v])
    IN Adjustments(_apply_envelope_policy(preset.envelope, get_policy(role).envelope, tempo),
                   _apply_filter_policy(preset.filter, get_policy(role).filter))

-----------------------------------------------------------------------------
(* semantic_embeddings: the search engine *)

\* SemanticTokenizer._load_stop_words()
stop_words ==
    {"a", "all", "an", "and", "another", "any", "are", "as", "at", "be", "but", "by",
     "each", "every", "for", "from", "has", "he", "if", "in", "is", "it", "its", "more",
     "most", "much", "no", "not", "of", "on", "only", "or", "other", "own", "same", "so",
     "some", "such", "than", "that", "the", "their", "them", "then", "there", "these", "they", "this",
     "to", "very", "was", "will", "with"}

\* self.kb_aliases.get(token, token); of a key written twice the later value holds
kb_aliases(token) ==
    CASE token = "hot" -> "warm" [] token = "cozy" -> "warm" [] token = "shiny" -> "bright"
      [] token = "sparkly" -> "bright" [] token = "moody" -> "dark" [] token = "ominous" -> "dark"
      [] token = "thick" -> "fat" [] token = "punchy" -> "percussive" [] token = "tight" -> "punchy"
      [] token = "snappy" -> "punchy" [] token = "gentle" -> "soft" [] token = "smooth" -> "soft"
      [] token = "rough" -> "harsh" [] token = "vintage" -> "analog" [] token = "retro" -> "analog"
      [] token = "modern" -> "digital" [] token = "clean" -> "digital" [] token = "organic" -> "wood"
      [] token = "natural" -> "wood" [] token = "metallic" -> "metal" [] token = "steel" -> "metal"
      [] token = "glassy" -> "glass" [] token = "crystalline" -> "glass" [] token = "synthetic" -> "plastic"
      [] token = "artificial" -> "plastic" [] token = "long" -> "sustained" [] token = "held" -> "sustained"
      [] token = "short" -> "percussive" [] token = "changing" -> "evolving" [] token = "morphing" -> "evolving"
      [] token = "stable" -> "static" [] token = "fixed" -> "static" [] token = "ethereal" -> "dreamy"
      [] token = "floating" -> "dreamy" [] token = "exciting" -> "energetic" [] token = "upbeat" -> "energetic"
      [] token = "peaceful" -> "calm" [] token = "serene" -> "calm" [] token = "intense" -> "aggressive"
      [] token = "powerful" -> "aggressive" [] token = "rich" -> "lush" [] token = "full" -> "lush"
      [] token = "sparse" -> "minimal" [] token = "simple" -> "minimal" [] token = "atmosphere" -> "pad"
      [] token = "background" -> "pad" [] token = "low" -> "bass" [] token = "foundation" -> "bass"
      [] token = "melody" -> "lead" [] token = "solo" -> "lead" [] token = "effect" -> "fx"
      [] token = "processing" -> "fx" [] token = "ambient" -> "texture" [] token = "soundscape" -> "texture"
      [] OTHER -> token

\* re.findall(r'\b\w+\b', text.lower().strip()) on the texts of the model; "" is also None
findall(text) ==
    CASE text = "Warm Analog Dream" -> <<"warm", "analog", "dream">>
      [] text = "Harsh Metal Grind" -> <<"harsh", "metal", "grind">>
      [] text = "Deep Bass" -> <<"deep", "bass">>
      [] text = "Warm Pad" -> <<"warm", "pad">>
      [] text = "Noise FX" -> <<"noise", "fx">>
      [] text = "Glass Bell" -> <<"glass", "bell">>
      [] text = "Warm Analog Dream warm analog" -> <<"warm", "analog", "dream", "warm", "analog">>
      [] text = "Harsh Metal Grind harsh metal" -> <<"harsh", "metal", "grind", "harsh", "metal">>
      [] text = "Deep Bass  " -> <<"deep", "bass">>
      [] text = "Warm Pad  " -> <<"warm", "pad">>
      [] text = "Noise FX  " -> <<"noise", "fx">>
      [] text = "warm analog pad" -> <<"warm", "analog", "pad">>
      [] text = "warm pad" -> <<"warm", "pad">>
      [] text = "pad warm" -> <<"pad", "warm">>
      [] text = "pad analog" -> <<"pad", "analog">>
      [] text = "pad harsh" -> <<"pad", "harsh">>
      [] text = "pad metal" -> <<"pad", "metal">>
      [] text = "warm analog pad warm" -> <<"warm", "analog", "pad", "warm">>
      [] text = "warm analog pad analog" -> <<"warm", "analog", "pad", "analog">>
      [] text = "warm analog pad harsh" -> <<"warm", "analog", "pad", "harsh">>
      [] text = "warm analog pad metal" -> <<"warm", "analog", "pad", "metal">>
      [] text = "the hot pad" -> <<"the", "hot", "pad">>
      [] text = "a cozy and shiny lead" -> <<"a", "cozy", "and", "shiny", "lead">>
      [] text = "Hot Hot" -> <<"hot", "hot">>
      [] text = "of the" -> <<"of", "the">>
      [] text = "Bass" -> <<"bass">>
      [] text = "PAD" -> <<"pad">>
      [] text = "C" -> <<"c">>
      [] text = "" -> <<>>
      [] OTHER -> <<text>>

\* the canonicalisation loop of tokenize over tokens[i..]
RECURSIVE canonical_tokens(_, _)
canonical_tokens(tokens, i) ==
    IF i > Len(tokens) THEN <<>>
    ELSE IF tokens[i] \in stop_words THEN canonical_tokens(tokens, i + 1)
    ELSE <<kb_aliases(tokens[i])>> \o canonical_tokens(tokens, i + 1)

\* for token in unique_tokens: if token not in seen: unique_tokens.append(token); seen.add(token)
\* from position i of unique_tokens on: the list walked is the list appended to
RECURSIVE unique_tokens(_, _, _)
unique_tokens(unique, i, seen) ==
    IF i > Len(unique) THEN unique
    ELSE IF unique[i] \notin seen
    THEN unique_tokens(Append(unique, unique[i]), i + 1, seen \cup {unique[i]})
    ELSE unique_tokens(unique, i + 1, seen)

\* SemanticTokenizer.tokenize(text) of a fresh tokenizer: canonical_tokens is computed and
\* dropped, the de-duplication starts from unique_tokens = [] and walks that list
tokenize(text) ==
    LET canonical == canonical_tokens(findall(text), 1)
    IN unique_tokens(<<>>, 1, {})

zeros == [d \in 1..embedding_dim |-> R(0)]

\* vector / norm(vector) if norm(vector) > 0 else vector
_normalize_vector(vector) ==
    LET Scaled(length) ==
            IF RGt(length, R(0)) THEN [d \in 1..Len(vector) |-> RDiv(vector[d], length)]
            ELSE vector
    IN Scaled(norm(vector))

\* np.dot(a, b)
RECURSIVE dot(_, _)
dot(a, b) == IF a = <<>> THEN R(0) ELSE RAdd(RMul(Head(a), Head(b)), dot(Tail(a), Tail(b)))

\* a + k * b on vectors
AddScaled(a, k, b) == [d \in 1..Len(a) |-> RAdd(a[d], RMul(k, b[d]))]

\* np.mean(vectors, axis=0)
RECURSIVE VectorSum(_)
VectorSum(vectors) ==
    IF vectors = <<>> THEN zeros ELSE AddScaled(VectorSum(Tail(vectors)), R(1), Head(vectors))

mean(vectors) == [d \in 1..embedding_dim |-> RDiv(VectorSum(vectors)[d], R(Len(vectors)))]

\* the first bytes of hashlib.md5(token.encode()).digest(), for the tokens of the model
md5(token) ==
    CASE token = "analog" -> <<2, 201, 173, 192, 214, 62>>
      [] token = "bass" -> <<158, 202, 4, 249, 156, 61>>
      [] token = "bell" -> <<141, 69, 200, 91, 81, 178>>
      [] token = "bogus" -> <<144, 175, 251, 217, 161, 149>>
      [] token = "bright" -> <<23, 51, 9, 37, 77, 116>>
      [] token = "c" -> <<74, 138, 8, 240, 157, 55>>
      [] token = "deep" -> <<102, 39, 65, 94, 128, 126>>
      [] token = "dream" -> <<136, 18, 102, 45, 207, 62>>
      [] token = "fx" -> <<195, 249, 85, 141, 104, 27>>
      [] token = "glass" -> <<37, 112, 201, 25, 245, 239>>
      [] token = "grind" -> <<37, 104, 250, 159, 82, 179>>
      [] token = "harsh" -> <<212, 227, 115, 14, 140, 186>>
      [] token = "lead" -> <<19, 237, 190, 139, 149, 38>>
      [] token = "metal" -> <<134, 9, 75, 97, 203, 159>>
      [] token = "noise" -> <<170, 221, 195, 69, 76, 203>>
      [] token = "pad" -> <<77, 202, 0, 218, 103, 198>>
      [] token = "warm" -> <<169, 87, 163, 21, 62, 183>>

\* _generate_token_vector(token); no token of the model contains one of the pattern words
\* without being that word
_generate_token_vector(token) ==
    LET hash_bytes == md5(token)
        hashed == [d \in 1..embedding_dim |->
                      IF d <= Len(hash_bytes) THEN Rat(hash_bytes[d] - 128, 128) ELSE R(0)]
        Set(vector, d, x) == IF d <= embedding_dim THEN [vector EXCEPT ![d] = x] ELSE vector
        Warmth(vector) ==
            IF token \in {"warm", "hot", "cozy"} THEN Set(vector, 1, R(1))
            ELSE IF token \in {"bright", "shiny", "sparkly"} THEN Set(vector, 2, R(1))
            ELSE IF token \in {"dark", "moody", "ominous"} THEN Set(vector, 2, R(-1))
            ELSE vector
        Weight(vector) ==
            IF token \in {"fat", "thick", "punchy"} THEN Set(vector, 3, R(1))
            ELSE IF token \in {"thin", "light", "delicate"} THEN Set(vector, 3, R(-1))
            ELSE vector
    IN _normalize_vector(Weight(Warmth(hashed)))

\* EmbeddingGenerator.__init__: empty dictionaries (entry_embeddings keeps insertion order)
EmbeddingGenerator == [token_embeddings |-> <<>>, entry_embeddings |-> <<>>, idf_scores |-> <<>>]

\* EmbeddingGenerator._encode_text(text): reads self.token_embeddings, stores nothing
_encode_text(self, text) ==
    LET Encoded(tokens) ==
            IF tokens = <<>> THEN zeros
            ELSE _normalize_vector(mean([i \in 1..Len(tokens) |->
                     IF tokens[i] \in DOMAIN self.token_embeddings
                     THEN self.token_embeddings[tokens[i]].vector
                     ELSE _generate_token_vector(tokens[i])]))
    IN Encoded(tokenize(text))

\* `if value:` on None or a float: NaN is true
Truthy(value) == value.k = "float" /\ value.r # R(0)

\* tempo or 120.0
TempoOr(tempo) == IF Truthy(tempo) THEN tempo.r ELSE R(120)

\* generate_query_embedding(text, role, tempo, key): the QueryEmbedding; role and key ""
\* stand for None
generate_query_embedding(self, text, role, tempo, key) ==
    LET tempo_norm == clip(RDiv(TempoOr(tempo), R(200)), R(0), R(1))
        tempo_vector == [d \in 1..embedding_dim |-> IF d = 1 THEN tempo_norm ELSE R(0)]
        WithRole(query_vector) ==
            IF role # ""
            THEN _normalize_vector(AddScaled(query_vector, Rat(1, 10), _encode_text(self, role)))
            ELSE query_vector
        WithTempo(query_vector) ==
            IF Truthy(tempo)
            THEN _normalize_vector(AddScaled(query_vector, Rat(5, 100), tempo_vector))
            ELSE query_vector
        WithKey(query_vector) ==
            IF key # ""
            THEN _normalize_vector(AddScaled(query_vector, Rat(5, 100), _encode_text(self, key)))
            ELSE query_vector
    IN [text |-> text, vector |-> WithKey(WithTempo(WithRole(_encode_text(self, text)))),
        tokens |-> tokenize(text), role |-> role, tempo |-> tempo, key |-> key]

\* preset.sound_characteristics, None for a preset that carries none
NoCharacteristics == [none |-> TRUE, timbral |-> "", material |-> "", dynamic |-> "", emotional |-> <<>>]

SoundCharacteristics(timbral, material, emotional, dynamic) ==
    [none |-> FALSE, timbral |-> timbral, material |-> material, dynamic |-> dynamic,
     emotional |-> emotional]

sound_characteristics(preset) ==
    IF "sound_characteristics" \in DOMAIN preset THEN preset.sound_characteristics
    ELSE NoCharacteristics

\* _extract_text_fields(preset): the fields that are not empty; emotional holds the 'tag'
\* of each entry; no preset of the model carries topological metadata
_extract_text_fields(preset) ==
    LET sc == sound_characteristics(preset)
    IN SelectSeq(<<preset.name>> \o (IF sc.none THEN <<>>
                                     ELSE <<sc.timbral, sc.material, sc.dynamic>> \o sc.emotional),
                 LAMBDA field : field # "")

\* the tokens of all text fields of a preset, and how often a token occurs in them
TokensOf(preset) ==
    UNION {{tokenize(text)[i] : i \in 1..Len(tokenize(text))} :
               text \in {_extract_text_fields(preset)[f] : f \in 1..Len(_extract_text_fields(preset))}}

RECURSIVE Occurrences(_, _)
Occurrences(token, tokens) ==
    IF tokens = <<>> THEN 0
    ELSE (IF Head(tokens) = token THEN 1 ELSE 0) + Occurrences(token, Tail(tokens))

RECURSIVE token_frequencies(_, _)
token_frequencies(token, texts) ==
    IF texts = <<>> THEN 0
    ELSE Occurrences(token, tokenize(Head(texts))) + token_frequencies(token, Tail(texts))

\* np.log(x) to four decimals, on the ratios total_documents / doc_count of the model
np_log(x) ==
    CASE x = R(1) -> R(0)
      [] x = R(2) -> Rat(6931, 10000)
      [] x = R(3) -> Rat(10986, 10000)
      [] x = Rat(3, 2) -> Rat(4055, 10000)
      [] x = R(4) -> Rat(13863, 10000)
      [] x = Rat(4, 3) -> Rat(2877, 10000)

\* build_vocabulary(presets): every token of the presets gets its vector and frequency, then
\* every token of the vocabulary gets its IDF over these preset_list
build_vocabulary(self, preset_list) ==
    LET all_tokens == UNION {TokensOf(preset_list[p]) : p \in 1..Len(preset_list)}
        texts == Concat([p \in 1..Len(preset_list) |-> _extract_text_fields(preset_list[p])])
        doc_count(token) == Cardinality({p \in 1..Len(preset_list) : token \in TokensOf(preset_list[p])})
        idf(token) == IF doc_count(token) > 0 THEN np_log(Rat(Len(preset_list), doc_count(token)))
                      ELSE R(0)
        vocabulary == all_tokens \cup DOMAIN self.token_embeddings
    IN [self EXCEPT
           !.token_embeddings =
               [token \in vocabulary |->
                   IF token \in all_tokens
                   THEN [token |-> token, vector |-> _generate_token_vector(token),
                         frequency |-> token_frequencies(token, texts), idf |-> idf(token)]
                   ELSE [self.token_embeddings[token] EXCEPT !.idf = idf(token)]],
           !.idf_scores = [token \in vocabulary |-> idf(token)]]

\* generate_entry_embedding(preset): the EntryEmbedding; tags is list(all_tokens), kept as
\* the set it is made from
generate_entry_embedding(self, preset) ==
    LET sc == sound_characteristics(preset)
        description == preset.name \o " " \o sc.timbral \o " " \o sc.material
        known == TokensOf(preset) \cap DOMAIN self.token_embeddings
        RECURSIVE TagVectors(_)
        TagVectors(tokens) ==
            IF tokens = {} THEN <<>>
            ELSE LET token == CHOOSE t \in tokens : TRUE
                 IN <<self.token_embeddings[token].vector>> \o TagVectors(tokens \ {token})
        description_vector == _encode_text(self, description)
    IN [preset_id |-> preset.name,
        vector |-> IF known # {}
                   THEN _normalize_vector(AddScaled(mean(TagVectors(known)), R(1), description_vector))
                   ELSE _normalize_vector(description_vector),
        tags |-> TokensOf(preset), description |-> description, role |-> preset.role]

\* self.entry_embeddings[entry.preset_id] = entry
Store(entries, entry) ==
    IF \E j \in 1..Len(entries) : entries[j].preset_id = entry.preset_id
    THEN [j \in 1..Len(entries) |->
             IF entries[j].preset_id = entry.preset_id THEN entry ELSE entries[j]]
    ELSE Append(entries, entry)

\* the loop of build_index over preset_list[i..]
RECURSIVE store_entries(_, _, _)
store_entries(self, preset_list, i) ==
    IF i > Len(preset_list) THEN self
    ELSE store_entries([self EXCEPT !.entry_embeddings =
                                       Store(self.entry_embeddings,
                                             generate_entry_embedding(self, preset_list[i]))],
                       preset_list, i + 1)

\* SemanticSearchEngine.build_index(presets)
build_index(self, preset_list) == store_entries(build_vocabulary(self, preset_list), preset_list, 1)

\* a similarity that counts the words of the query text missing from the entry description
SimilarityOfMissingWords(self, query, entry) ==
    Rat(Cardinality({i \in 1..Len(findall(query.text)) :
                        \A j \in 1..Len(findall(entry.description)) :
                            findall(entry.description)[j] # findall(query.text)[i]}), 8)

\* EmbeddingGenerator.compute_similarity(query, entry)
compute_similarity(self, query, entry) ==
    LET query_norm == norm(query.vector)
        entry_norm == norm(entry.vector)
        cosine_sim == RDiv(dot(query.vector, entry.vector), RMul(query_norm, entry_norm))
        shared_tags == {query.tokens[i] : i \in 1..Len(query.tokens)} \cap entry.tags
        RECURSIVE Boost(_)
        Boost(tags) ==
            IF tags = {} THEN R(0)
            ELSE LET tag == CHOOSE t \in tags : TRUE
                 IN RAdd(IF tag \in DOMAIN self.idf_scores
                         THEN RMul(self.idf_scores[tag], Rat(1, 10)) ELSE R(0),
                         Boost(tags \ {tag}))
        Max(a, b) == IF RGt(b, a) THEN b ELSE a
        Min(a, b) == IF RLt(b, a) THEN b ELSE a
    IN IF query_norm = R(0) \/ entry_norm = R(0) THEN R(0)
       ELSE Min(Max(RAdd(cosine_sim, Boost(shared_tags)), R(0)), R(1))

\* similarities.sort(key=lambda x: x[1], reverse=True): stable, equal scores keep their order
RECURSIVE sort_descending(_)
sort_descending(similarities) ==
    IF similarities = <<>> THEN <<>>
    ELSE LET item == similarities[Len(similarities)]
             Insert(sorted) ==
                 LET k == Cardinality({j \in 1..Len(sorted) : RGe(sorted[j].score, item.score)})
                 IN SubSeq(sorted, 1, k) \o <<item>> \o SubSeq(sorted, k + 1, Len(sorted))
         IN Insert(sort_descending(SubSeq(similarities, 1, Len(similarities) - 1)))

\* EmbeddingGenerator.search(query, top_k)
search(self, query, top_k) ==
    LET Top(sorted) == SubSeq(sorted, 1, IF Len(sorted) < top_k THEN Len(sorted) ELSE top_k)
    IN Top(sort_descending([e \in 1..Len(self.entry_embeddings) |->
               [preset_id |-> self.entry_embeddings[e].preset_id,
                score |-> compute_similarity(self, query, self.entry_embeddings[e])]]))

\* SemanticSearchEngine.search(query_text, role, tempo, key, top_k)
SemanticSearchEngine_search(self, query_text, role, tempo, key, top_k) ==
    search(self, generate_query_embedding(self, query_text, role, tempo, key), top_k)

\* a query that keeps the vectors it makes for the unknown words of the query text
StoringQueryTokens(self, query_text, role, key) ==
    LET unknown == {findall(query_text)[i] : i \in 1..Len(findall(query_text))}
                       \ DOMAIN self.token_embeddings
    IN [self EXCEPT !.token_embeddings =
                        [token \in unknown |->
                            [token |-> token, vector |-> _generate_token_vector(token),
                             frequency |-> 0, idf |-> R(0)]] @@ self.token_embeddings]

\* the attributes of the embedding generator after a query: search, generate_query_embedding
\* and _encode_text assign to none of them
AfterQuery(self, query_text, role, key) == self

\* generator.search_engine.embedding_generator
embedding_generator ==
    [token_embeddings |-> token_embeddings, entry_embeddings |-> entry_embeddings,
     idf_scores |-> idf_scores]

\* AudioPresetGenerator.search_presets(query, role, tempo, key, top_k)
search_presets(query, role, tempo, key, top_k) ==
    SemanticSearchEngine_search(embedding_generator, query, role, tempo, key, top_k)

-----------------------------------------------------------------------------
(* decision_heads.apply_decisions and main.AudioPresetGenerator *)

\* the value loop of apply_decisions from decisions[i] on: the preset and applied_changes
RECURSIVE ApplyValues(_, _, _, _)
ApplyValues(preset, applied_changes, value_decisions, i) ==
    LET d == value_decisions[i]
    IN IF i > Len(value_decisions) THEN [preset |-> preset, applied_changes |-> applied_changes]
       ELSE IF d.parameter_name = "filter_cutoff"
       THEN ApplyValues([preset EXCEPT !.filter.cutoff = PyFloat(d.final_value)],
                        ("filter_cutoff" :> d.final_value) @@ applied_changes, value_decisions, i + 1)
       ELSE IF d.parameter_name = "filter_resonance"
       THEN ApplyValues([preset EXCEPT !.filter.resonance = PyFloat(d.final_value)],
                        ("filter_resonance" :> d.final_value) @@ applied_changes, value_decisions, i + 1)
       ELSE IF d.parameter_name = "oscillator_detune"
       THEN ApplyValues([preset EXCEPT !.oscillator.detune = PyFloat(d.final_value)],
                        ("oscillator_detune" :> d.final_value) @@ applied_changes, value_decisions, i + 1)
       ELSE ApplyValues(preset, applied_changes, value_decisions, i + 1)

\* routing_info: for each source with an enabled decision, its targets and amounts in order
routing_info(routing_decisions) ==
    LET Enabled(d) == d.enabled
        enabled == SelectSeq(routing_decisions, Enabled)
    IN [source \in {enabled[n].source : n \in 1..Len(enabled)} |->
           LET From(d) == d.source = source
               Entry(ds) == [n \in 1..Len(ds) |-> [target |-> ds[n].target, amount |-> ds[n].amount]]
           IN Entry(SelectSeq(enabled, From))]

\* apply_decisions(preset, decisions): the preset as the call leaves it, and applied_changes
apply_decisions(preset, decisions) ==
    LET WithRouting(applied) ==
            [preset |-> applied.preset,
             applied_changes |-> [values |-> applied.applied_changes,
                                  routing |-> routing_info(decisions.routing_decisions)]]
    IN WithRouting(ApplyValues(preset, <<>>, decisions.value_decisions, 1))

\* Role(value): the enumeration's values
Roles ==
    {"pad", "bass", "lead", "fx", "texture", "arp", "drone", "rhythm", "bell", "chord", "pluck"}

\* str.lower() on the role names the callers pass
lower(text) == CASE text = "Bass" -> "bass" [] text = "PAD" -> "pad" [] OTHER -> text

\* normalize_presets(): self.normalized_presets from self.presets[i..]
RECURSIVE normalize_presets(_, _, _)
normalize_presets(json_presets, i, done) ==
    LET Keep(n) == IF n.raised THEN done ELSE Append(done, n.preset)
    IN IF i > Len(json_presets) THEN done
       ELSE normalize_presets(json_presets, i + 1, Keep(normalize(json_presets[i])))

\* what a generate_audio_preset call leaves behind: its result (<<>> stands for {}), the
\* presets, the builder's busses, the generator np.random and the graph built last
Generated(raised, result, held, busses, rng, g) ==
    [raised |-> raised, result |-> result, normalized_presets |-> held,
     virtual_busses |-> busses, np_random |-> rng, graph |-> g]

\* steps 3 to 11 of generate_audio_preset on base_preset = normalized_presets[i]
Compile(query, role, tempo, key, i, best) ==
    LET base_preset == normalized_presets[i]
        role_enum == IF role # "" /\ lower(role) \in Roles THEN lower(role) ELSE base_preset.role
        key_or == IF key # "" THEN key ELSE "C"
        Decide(policy_adjustments, inferred) ==
            LET Build(applied) ==
                    LET Finish(built) ==
                            Generated(built.raised,
                                      IF built.raised THEN <<>>
                                      ELSE [base_preset |-> best.preset_id, role |-> role_enum,
                                            query |-> query, tempo |-> TempoOr(tempo), key |-> key_or,
                                            similarity_score |-> best.score,
                                            policy_adjustments |-> policy_adjustments.v,
                                            applied_changes |-> applied.applied_changes,
                                            graph |-> [nodes |-> Len(built.graph.nodes),
                                                       connections |-> Len(built.graph.connections),
                                                       validation_passed |-> built.graph.validation_passed,
                                                       validation_errors |-> built.graph.validation_errors],
                                            parameters |->
                                                [filter_cutoff |-> applied.preset.filter.cutoff,
                                                 filter_resonance |-> applied.preset.filter.resonance,
                                                 oscillator_detune |-> applied.preset.oscillator.detune,
                                                 envelope_attack |-> applied.preset.envelope.attack,
                                                 envelope_release |-> applied.preset.envelope.release]],
                                      [normalized_presets EXCEPT ![i] = applied.preset],
                                      built.virtual_busses, inferred.rng,
                                      IF built.raised THEN graph ELSE built.graph)
                    IN Finish(build_graph(applied.preset, virtual_busses))
            IN IF policy_adjustments.raised
               THEN Generated(TRUE, <<>>, normalized_presets, virtual_busses, np_random, graph)
               ELSE Build(apply_decisions(base_preset, inferred.decisions))
    IN Decide(apply_policy(base_preset, role_enum, TempoOr(tempo), key_or),
              infer_decisions(Context(generate_query_embedding(embedding_generator, query, role,
                                                               tempo, key).vector,
                                      role_enum, TempoOr(tempo), key_or), np_random))

\* generate_audio_preset(query, role, tempo, key); role and key "" stand for None
generate_audio_preset(query, role, tempo, key) ==
    LET Best(found) ==
            IF found = <<>>
            THEN Generated(FALSE, <<>>, normalized_presets, virtual_busses, np_random, graph)
            ELSE Compile(query, role, tempo, key,
                         CHOOSE i \in 1..Len(normalized_presets) :
                             /\ normalized_presets[i].name = found[1].preset_id
                             /\ \A j \in 1..(i - 1) :
                                    normalized_presets[j].name # found[1].preset_id,
                         found[1])
    IN Best(search_presets(query, role, tempo, key, 5))

-----------------------------------------------------------------------------
(* State machine of the graph builder *)

builder_vars == <<graph, virtual_busses, build_outcome, inserted>>
normalizer_vars == <<json_preset, normalized, renormalized, normalize_outcome>>
loader_vars == <<file_paths, presets, load_outcome>>
engine_vars == <<hash_seed, np_random, infer_calls, infer_results, other_draws>>
search_vars == <<token_embeddings, entry_embeddings, idf_scores, search_calls, search_results>>
policy_vars == <<policy_calls, policy_results>>
generator_vars ==
    <<normalized_presets, generate_calls, generate_results, search_vars, policy_vars>>
tokenizer_vars == <<tokenize_calls, tokenize_results>>
audio_vars == <<playing_sounds, threads, call, call_results>>
interface_vars == <<tokenizer_vars, audio_vars>>
vars == <<builder_vars, normalizer_vars, loader_vars, engine_vars, generator_vars, interface_vars>>

InitGraph ==
    /\ graph = Graph
    /\ virtual_busses = GraphBuilder_init
    /\ build_outcome = "none"
    /\ inserted = 0

\* no preset handed to the normalizer
NoNormalizer ==
    /\ json_preset = BuildPreset(0, PyFloat(R(1000)), <<>>)
    /\ normalized = json_preset
    /\ renormalized = json_preset
    /\ normalize_outcome = "none"

\* no load_presets call
NoLoader ==
    /\ file_paths = <<>>
    /\ presets = <<>>
    /\ load_outcome = "none"

\* a DecisionEngine not called yet
NoEngine ==
    /\ hash_seed = 0
    /\ np_random = Seeded(0)
    /\ infer_calls = <<>>
    /\ infer_results = <<>>
    /\ other_draws = 0

\* an AudioPresetGenerator with no presets
NoGenerator ==
    /\ normalized_presets = <<>>
    /\ generate_calls = <<>>
    /\ generate_results = <<>>
    /\ token_embeddings = EmbeddingGenerator.token_embeddings
    /\ entry_embeddings = EmbeddingGenerator.entry_embeddings
    /\ idf_scores = EmbeddingGenerator.idf_scores
    /\ search_calls = <<>>
    /\ search_results = <<>>
    /\ policy_calls = <<>>
    /\ policy_results = <<>>

\* no tokenizer call and an AudioInterface that plays nothing
NoInterface ==
    /\ tokenize_calls = <<>>
    /\ tokenize_results = <<>>
    /\ playing_sounds = <<>>
    /\ threads = <<>>
    /\ call = [pc |-> "idle", preset_name |-> ""]
    /\ call_results = <<>>

\* builder.build_graph(preset)
BuildGraph(preset) ==
    /\ Len(virtual_busses.mod_env) < MaxBuilds
    /\ LET Commit(b) == /\ graph' = b.graph
                        /\ virtual_busses' = b.virtual_busses
                        /\ build_outcome' = IF b.raised THEN "raised" ELSE "returned"
       IN Commit(build_graph(preset, virtual_busses))
    /\ inserted' = 0
    /\ UNCHANGED <<interface_vars, normalizer_vars, loader_vars, engine_vars, generator_vars>>

Init == InitGraph /\ NoNormalizer /\ NoLoader /\ NoEngine /\ NoGenerator /\ NoInterface

Next == \E preset \in BuildPresets : BuildGraph(preset)

Spec == Init /\ [][Next]_vars

-----------------------------------------------------------------------------
(* The normalizer applied to a parsed preset, and again to its own output *)

TimeSamples ==
    {PyFloat(R(0)), PyFloat(R(50)), PyStr(<<"5", "0", "m", "s">>),
     PyStr(<<"a", "b", "c", "m", "s">>), PyStr(<<"8", "0", "-", "2", "5", "0">>)}

FrequencySamples ==
    {PyFloat(R(1000)), PyFloat(R(25000)), PyStr(<<"n", "a", "n", "H", "z">>),
     PyStr(<<"2", "5", "k", "H", "z">>), PyStr(<<"a", "b", "c">>)}

PercentageSamples == {PyFloat(Rat(3, 10)), PyInt(95)}

RatioSamples == {PyFloat(R(1)), PyFloat(R(0)), PyInt(-1)}

NormalizerFx ==
    {<<>>,
     <<EffectConfig("delay", PyInt(50), PyFloat(Rat(95, 100)), PyStr(<<"2", "5", "0", "m", "s">>), PyInt(10))>>,
     <<EffectConfig("reverb", PyFloat(R(1)), PyNone, PyNone, PyNone),
       EffectConfig("distortion", PyFloat(Rat(1, 2)), PyNone, PyNone, PyFloat(R(1)))>>}

\* a JsonPreset as the parser builds it: no role, release and decay fixed
NormalizerPresets ==
    {Preset(name, "none", OscTypes(1), mix_ratios, PyFloat(R(0)),
            attack, PyFloat(R(100)), PyFloat(Rat(7, 10)), PyStr(<<"2", "s">>),
            cutoff, resonance, PyFloat(R(0)), fx) :
        name \in {"Warm Pad", "Noise FX", "Glass Bell"},
        mix_ratios \in SeqsUpTo(RatioSamples, MaxRatios),
        attack \in TimeSamples, cutoff \in FrequencySamples,
        resonance \in PercentageSamples, fx \in NormalizerFx}

InitNormalizer ==
    /\ InitGraph
    /\ NoLoader
    /\ NoEngine
    /\ NoGenerator
    /\ NoInterface
    /\ json_preset \in NormalizerPresets
    /\ normalized = json_preset
    /\ renormalized = json_preset
    /\ normalize_outcome = "none"

\* normalizer.normalize(json_preset)
Normalize ==
    /\ normalize_outcome = "none"
    /\ LET Commit(n) == /\ normalized' = n.preset
                        /\ normalize_outcome' = IF n.raised THEN "raised" ELSE "returned"
       IN Commit(normalize(json_preset))
    /\ UNCHANGED <<interface_vars, builder_vars, loader_vars, engine_vars, generator_vars,
                   json_preset, renormalized>>

\* normalizer.normalize on the fields of the NormalizedPreset it returned
Renormalize ==
    /\ normalize_outcome = "returned"
    /\ LET Commit(n) == /\ renormalized' = n.preset
                        /\ normalize_outcome' = IF n.raised THEN "reraised" ELSE "renormalized"
       IN Commit(normalize(normalized))
    /\ UNCHANGED <<interface_vars, builder_vars, loader_vars, engine_vars, generator_vars,
                   json_preset, normalized>>

\* JsonPresets whose names match none, one or several keyword sets, with and without an
\* explicit role, and whose attack and release lie on both sides of 0.001 s
RoleNames ==
    {"Warm Pad", "Deep Bass", "Noise FX", "Glass Bell", "Warm Bass", "Ambient Drone",
     "Sharp Lead", "Harp", "Soft Pluck", "Zither", "Crunchy Texture", "Rhythmic Chord",
     "Clear Drone", "Karplus"}

RolePresets ==
    {Preset(name, role, OscTypes(1), <<PyFloat(R(1))>>, PyFloat(R(0)),
            attack, PyFloat(R(100)), PyFloat(Rat(7, 10)), release,
            PyFloat(R(1000)), PyFloat(Rat(3, 10)), PyFloat(R(0)), <<>>) :
        name \in RoleNames, role \in {"none", "bass", "fx", "bell"},
        attack \in {PyFloat(R(0)), PyStr(<<"0", ".", "5", "m", "s">>), PyFloat(R(1)),
                    PyFloat(R(50))},
        release \in {PyFloat(R(0)), PyStr(<<"2", "s">>)}}

InitRole ==
    /\ InitGraph
    /\ NoLoader
    /\ NoEngine
    /\ NoGenerator
    /\ NoInterface
    /\ json_preset \in RolePresets
    /\ normalized = json_preset
    /\ renormalized = json_preset
    /\ normalize_outcome = "none"

NextRole == Normalize

SpecRole == InitRole /\ [][NextRole]_vars

NextNormalizer == Normalize \/ Renormalize

SpecNormalizer == InitNormalizer /\ [][NextNormalizer]_vars

-----------------------------------------------------------------------------
(* A parsed preset normalized and then built into a graph *)

PipelinePresets ==
    {Preset("Noise FX", "none", OscTypes(n), mix_ratios, PyFloat(R(0)),
            attack, PyFloat(R(100)), PyFloat(Rat(7, 10)), PyStr(<<"2", "s">>),
            cutoff, PyFloat(Rat(3, 10)), PyFloat(R(0)), <<>>) :
        n \in 1..MaxOsc, mix_ratios \in SeqsUpTo(RatioSamples, MaxRatios),
        attack \in {PyStr(<<"5", "0", "m", "s">>), PyFloat(R(50))},
        cutoff \in {PyFloat(R(1000)), PyFloat(R(400))}}

InitPipeline ==
    /\ InitGraph
    /\ NoLoader
    /\ NoEngine
    /\ NoGenerator
    /\ NoInterface
    /\ json_preset \in PipelinePresets
    /\ normalized = json_preset
    /\ renormalized = json_preset
    /\ normalize_outcome = "none"

\* builder.build_graph(normalized), on the NormalizedPreset normalize returned
BuildNormalized ==
    /\ normalize_outcome = "returned"
    /\ build_outcome = "none"
    /\ LET Commit(b) == /\ graph' = b.graph
                        /\ virtual_busses' = b.virtual_busses
                        /\ build_outcome' = IF b.raised THEN "raised" ELSE "returned"
       IN Commit(build_graph(normalized, virtual_busses))
    /\ inserted' = 0
    /\ UNCHANGED <<interface_vars, normalizer_vars, loader_vars, engine_vars, generator_vars>>

NextPipeline == Normalize \/ BuildNormalized

SpecPipeline == InitPipeline /\ [][NextPipeline]_vars

-----------------------------------------------------------------------------
(* Files loaded by the generator *)

File(readable, well_formed, key, items) ==
    [readable |-> readable, well_formed |-> well_formed, key |-> key, items |-> items]

Item(name, synthesis_type, attack, cutoff) ==
    [name |-> name, config |-> [synthesis_type |-> synthesis_type, attack |-> attack, cutoff |-> cutoff]]

Files ==
    {File(TRUE, TRUE, "groups", <<Item("Warm Pad", "subtractive", PyStr(<<"5", "0", "m", "s">>), PyNone),
                                  Item("Deep Bass", "fm", PyFloat(R(50)), PyFloat(R(400)))>>),
     File(TRUE, TRUE, "groups", <<Item("Glass Bell", "additive", PyNone, PyFloat(R(2000)))>>),
     File(TRUE, TRUE, "groups", <<Item("Noise FX", "granular", PyFloat(R(50)), PyNone),
                                  Item("Broken", "bogus", PyNone, PyNone)>>),
     File(TRUE, TRUE, "settings", <<>>),
     File(TRUE, FALSE, "", <<>>),
     File(FALSE, FALSE, "", <<>>)}

InitLoader ==
    /\ InitGraph
    /\ NoNormalizer
    /\ NoEngine
    /\ NoGenerator
    /\ NoInterface
    /\ file_paths \in SeqsUpTo(Files, MaxFiles)
    /\ presets \in {<<>>, load_files(<<CHOOSE f \in Files : Len(f.items) = 1>>, 1, <<>>)}
    /\ load_outcome = "none"

\* generator.load_presets(file_paths)
LoadPresets ==
    /\ load_outcome = "none"
    /\ LET Commit(l) == /\ presets' = (IF l.raised THEN presets ELSE l.presets)
                        /\ load_outcome' = IF l.raised THEN "raised" ELSE "returned"
       IN Commit(load_presets(file_paths))
    /\ UNCHANGED <<interface_vars, builder_vars, normalizer_vars, engine_vars, generator_vars,
                   file_paths>>

NextLoader == LoadPresets

SpecLoader == InitLoader /\ [][NextLoader]_vars

-----------------------------------------------------------------------------
(* The decision engine under repeated calls, np.random shared with other code *)

QueryVectors == {<<R(0), R(0), R(0), R(0)>>, <<R(3), R(0), R(0), R(0)>>}

Contexts == {Context(q, role, R(120), "C") : q \in QueryVectors, role \in {"pad", "bell"}}

InitEngine ==
    /\ InitGraph
    /\ NoNormalizer
    /\ NoLoader
    /\ NoGenerator
    /\ NoInterface
    /\ hash_seed \in 0..MaxHashSeed
    /\ np_random = Seeded(0)
    /\ infer_calls = <<>>
    /\ infer_results = <<>>
    /\ other_draws = 0

\* decision_engine.infer_decisions(context)
InferDecisions(context) ==
    /\ Len(infer_calls) < MaxCalls
    /\ infer_calls' = Append(infer_calls, context)
    /\ LET Commit(d) == /\ infer_results' = Append(infer_results, d.decisions)
                        /\ np_random' = d.rng
       IN Commit(infer_decisions(context, np_random))
    /\ UNCHANGED <<interface_vars, builder_vars, normalizer_vars, loader_vars, generator_vars,
                   hash_seed, other_draws>>

\* other code draws from np.random
OtherDraw ==
    /\ other_draws < MaxDraws
    /\ np_random' = Drawn(np_random)
    /\ other_draws' = other_draws + 1
    /\ UNCHANGED <<interface_vars, builder_vars, normalizer_vars, loader_vars, generator_vars,
                   hash_seed, infer_calls, infer_results>>

\* other code calls np.random.seed(seed)
OtherSeed(seed) ==
    /\ other_draws < MaxDraws
    /\ np_random' = Seeded(seed)
    /\ other_draws' = other_draws + 1
    /\ UNCHANGED <<interface_vars, builder_vars, normalizer_vars, loader_vars, generator_vars,
                   hash_seed, infer_calls, infer_results>>

NextEngine ==
    \/ \E context \in Contexts : InferDecisions(context)
    \/ OtherDraw
    \/ \E seed \in {42} : OtherSeed(seed)

SpecEngine == InitEngine /\ [][NextEngine]_vars

-----------------------------------------------------------------------------
(* One generator with a built index, compiling queries *)

GeneratorPreset(name, attack, cutoff, resonance) ==
    Preset(name, "none", OscTypes(1), <<PyFloat(R(1))>>, PyFloat(R(0)),
           attack, PyFloat(R(100)), PyFloat(Rat(7, 10)), PyFloat(R(300)),
           cutoff, resonance, PyFloat(Rat(2, 10)), <<>>)

GeneratorPresets ==
    {GeneratorPreset("Warm Pad", PyFloat(R(50)), PyFloat(R(1000)), PyFloat(Rat(3, 10))),
     GeneratorPreset("Noise FX", PyFloat(R(50)), PyFloat(R(5000)), PyFloat(Rat(1, 2))),
     GeneratorPreset("Deep Bass", PyStr(<<"a", "b", "c", "m", "s">>), PyFloat(R(1000)),
                     PyFloat(Rat(3, 10)))}

\* load_presets, normalize_presets and build_search_index have run
InitGenerator ==
    /\ InitGraph
    /\ NoNormalizer
    /\ NoLoader
    /\ hash_seed \in 0..MaxHashSeed
    /\ np_random = Seeded(0)
    /\ infer_calls = <<>>
    /\ infer_results = <<>>
    /\ other_draws = 0
    /\ \E json_presets \in SeqsUpTo(GeneratorPresets, MaxPresets) :
           /\ normalized_presets = normalize_presets(json_presets, 1, <<>>)
           /\ \E index \in {build_index(EmbeddingGenerator, normalize_presets(json_presets, 1, <<>>))} :
                  /\ token_embeddings = index.token_embeddings
                  /\ entry_embeddings = index.entry_embeddings
                  /\ idf_scores = index.idf_scores
    /\ generate_calls = <<>>
    /\ generate_results = <<>>
    /\ search_calls = <<>>
    /\ search_results = <<>>
    /\ policy_calls = <<>>
    /\ policy_results = <<>>
    /\ NoInterface

\* generator.generate_audio_preset(query, role, tempo, key)
Generate(query, role, tempo, key) ==
    /\ Len(generate_calls) < MaxGenerations
    /\ generate_calls' = Append(generate_calls, <<query, role, tempo, key>>)
    /\ \E g \in {generate_audio_preset(query, role, tempo, key)} :
           /\ generate_results' = Append(generate_results, [raised |-> g.raised, result |-> g.result])
           /\ normalized_presets' = g.normalized_presets
           /\ virtual_busses' = g.virtual_busses
           /\ np_random' = g.np_random
           /\ graph' = g.graph
    /\ UNCHANGED <<interface_vars, build_outcome, inserted, normalizer_vars, loader_vars,
                   hash_seed>>
    /\ UNCHANGED <<infer_calls, infer_results, other_draws, search_vars, policy_vars>>

NextGenerator ==
    \E query \in {"warm pad"}, role \in {"", "Bass", "bogus"}, tempo \in {PyNone, PyFloat(R(90))} :
        Generate(query, role, tempo, "")

SpecGenerator == InitGenerator /\ [][NextGenerator]_vars

-----------------------------------------------------------------------------
(* The decision engine asked once, over every role and over query vectors of every kind *)

BoundsVectors ==
    {<<R(0), R(0), R(0), R(0)>>, <<R(3), R(0), R(0), R(0)>>, <<R(-1), R(0), R(0), R(0)>>,
     <<Rat(1, 2), Rat(1, 2), Rat(1, 2), Rat(1, 2)>>, <<NaN, R(0), R(0), R(0)>>}

BoundsContexts == {Context(q, role, R(120), "C") : q \in BoundsVectors, role \in Roles}

\* decision_engine.infer_decisions(context), the first call on the engine
InferOnce(context) ==
    /\ infer_calls = <<>>
    /\ InferDecisions(context)

NextBounds == \E context \in BoundsContexts : InferOnce(context)

SpecBounds == InitEngine /\ [][NextBounds]_vars

-----------------------------------------------------------------------------
(* _normalize_time on its own, over bare numbers and suffixed strings *)

TimeStrings ==
    {digits \o suffix :
        digits \in {<<a>> : a \in {"0", "5", "9"}} \cup {<<a, b>> : a \in {"1", "5"}, b \in {"0", "2"}}
                   \cup {<<"1", ".", "2">>},
        suffix \in {<<"m", "s">>, <<"s">>, <<>>}}

TimeInputs ==
    {PyInt(n) : n \in -1..12} \cup {PyFloat(Rat(k, 2)) : k \in 0..24} \cup {PyStr(s) : s \in TimeStrings}

InitTime ==
    /\ InitGraph
    /\ NoLoader
    /\ NoEngine
    /\ NoGenerator
    /\ NoInterface
    /\ \E attack \in TimeInputs :
           json_preset = Preset("Noise FX", "none", OscTypes(1), <<PyFloat(R(1))>>, PyFloat(R(0)),
                                attack, PyFloat(R(100)), PyFloat(Rat(7, 10)), PyFloat(R(300)),
                                PyFloat(R(1000)), PyFloat(Rat(3, 10)), PyFloat(R(0)), <<>>)
    /\ normalized = json_preset
    /\ renormalized = json_preset
    /\ normalize_outcome = "none"

\* attack = self._normalize_time(envelope.attack, "envelope.attack", issues)
NormalizeTime ==
    /\ normalize_outcome = "none"
    /\ \E t \in {_normalize_time(json_preset.envelope.attack, Name("envelope.attack"))} :
           /\ normalize_outcome' = IF t.raised THEN "raised" ELSE "returned"
           /\ normalized' = IF t.raised THEN normalized
                            ELSE [normalized EXCEPT !.envelope.attack = PyFloat(t.v),
                                                    !.validation_issues = t.issues]
    /\ UNCHANGED <<interface_vars, builder_vars, loader_vars, engine_vars, generator_vars,
                   json_preset, renormalized>>

SpecTime == InitTime /\ [][NormalizeTime]_vars

-----------------------------------------------------------------------------
(* The tokenizer on its own *)

TokenizerTexts ==
    {"the hot pad", "a cozy and shiny lead", "sparkly", "the", "Hot Hot", "Warm Pad",
     "warm analog pad", "", "pad", "bright", "of the", "Deep Bass"}

\* SemanticTokenizer().tokenize(text)
Tokenize(text) ==
    /\ Len(tokenize_calls) < MaxTokenizeCalls
    /\ tokenize_calls' = Append(tokenize_calls, text)
    /\ tokenize_results' = Append(tokenize_results, tokenize(text))
    /\ UNCHANGED <<builder_vars, normalizer_vars, loader_vars, engine_vars, generator_vars, audio_vars>>

NextTokenizer == \E text \in TokenizerTexts : Tokenize(text)

SpecTokenizer == Init /\ [][NextTokenizer]_vars

-----------------------------------------------------------------------------
(* Routing decisions: the engine called directly and through generate_audio_preset *)

RoutingVectors ==
    {<<R(0), R(0), R(0), R(0)>>, <<R(-1), R(0), R(0), R(0)>>,
     <<Rat(1, 2), Rat(1, 2), Rat(1, 2), Rat(1, 2)>>, <<R(3), R(0), R(0), R(0)>>}

RoutingContexts == {Context(q, role, R(120), "C") : q \in RoutingVectors, role \in Roles}

\* a generator holding one preset, its index built
InitRouting ==
    /\ InitGraph
    /\ NoNormalizer
    /\ NoLoader
    /\ NoInterface
    /\ hash_seed \in 0..MaxHashSeed
    /\ np_random = Seeded(0)
    /\ infer_calls = <<>>
    /\ infer_results = <<>>
    /\ other_draws = 0
    /\ \E json_preset_list \in {<<p>> : p \in GeneratorPresets} :
           /\ normalized_presets = normalize_presets(json_preset_list, 1, <<>>)
           /\ \E index \in {build_index(EmbeddingGenerator,
                                        normalize_presets(json_preset_list, 1, <<>>))} :
                  /\ token_embeddings = index.token_embeddings
                  /\ entry_embeddings = index.entry_embeddings
                  /\ idf_scores = index.idf_scores
    /\ generate_calls = <<>>
    /\ generate_results = <<>>
    /\ search_calls = <<>>
    /\ search_results = <<>>
    /\ policy_calls = <<>>
    /\ policy_results = <<>>

\* generator.generate_audio_preset("warm pad", role)
RoutedGenerate(role) ==
    /\ Len(generate_calls) < MaxRoutedGenerations
    /\ Generate("warm pad", role, PyNone, "")

NextRouting ==
    \/ \E context \in RoutingContexts : InferOnce(context)
    \/ \E role \in {"", "Bass"} : RoutedGenerate(role)

SpecRouting == InitRouting /\ [][NextRouting]_vars

-----------------------------------------------------------------------------
(* AudioInterface on the sounddevice engine: one caller and the playback threads it starts.
   A membership test, an assignment and a del on playing_sounds are one step each. *)

PlayableNames == {"Warm Pad", "Deep Bass"}

\* del self.playing_sounds[preset_name]
Deleted(sounds, preset_name) == [n \in DOMAIN sounds \ {preset_name} |-> sounds[n]]

\* where the caller goes on when the stop_preset it is in ends: play_preset goes on to start
\* the playback if stop_preset returned, and is left by the exception if it raised
AfterStop(raised) ==
    IF call.pc \in {"play_stop_check", "play_stop_delete"} /\ ~raised
    THEN [call EXCEPT !.pc = "start"]
    ELSE [pc |-> "idle", preset_name |-> ""]

\* play_preset(preset_name) up to `if preset_name in self.playing_sounds`
PlayPreset(preset_name) ==
    /\ call.pc = "idle"
    /\ Len(threads) < MaxPlays
    /\ call' = [pc |-> IF preset_name \in DOMAIN playing_sounds THEN "play_stop_check" ELSE "start",
                preset_name |-> preset_name]
    /\ UNCHANGED <<builder_vars, normalizer_vars, loader_vars, engine_vars, generator_vars,
                   tokenizer_vars, playing_sounds, threads, call_results>>

\* the caller calls stop_preset(preset_name)
StopPreset(preset_name) ==
    /\ call.pc = "idle"
    /\ Len(call_results) < MaxStops
    /\ call' = [pc |-> "stop_check", preset_name |-> preset_name]
    /\ UNCHANGED <<builder_vars, normalizer_vars, loader_vars, engine_vars, generator_vars,
                   tokenizer_vars, playing_sounds, threads, call_results>>

\* stop_preset: `if preset_name not in self.playing_sounds: return False`
StopCheck ==
    /\ call.pc \in {"stop_check", "play_stop_check"}
    /\ IF call.preset_name \notin DOMAIN playing_sounds
       THEN /\ call_results' = Append(call_results, "False")
            /\ call' = AfterStop(FALSE)
       ELSE /\ call' = [call EXCEPT !.pc = IF call.pc = "stop_check" THEN "stop_delete"
                                           ELSE "play_stop_delete"]
            /\ UNCHANGED call_results
    /\ UNCHANGED <<builder_vars, normalizer_vars, loader_vars, engine_vars, generator_vars,
                   tokenizer_vars, playing_sounds, threads>>

\* stop_preset: `del self.playing_sounds[preset_name]; return True`, a KeyError when the
\* entry is gone
StopDelete ==
    /\ call.pc \in {"stop_delete", "play_stop_delete"}
    /\ IF call.preset_name \in DOMAIN playing_sounds
       THEN /\ playing_sounds' = Deleted(playing_sounds, call.preset_name)
            /\ call_results' = Append(call_results, "True")
            /\ call' = AfterStop(FALSE)
       ELSE /\ call_results' = Append(call_results, "KeyError")
            /\ call' = AfterStop(TRUE)
            /\ UNCHANGED playing_sounds
    /\ UNCHANGED <<builder_vars, normalizer_vars, loader_vars, engine_vars, generator_vars,
                   tokenizer_vars, threads>>

\* _play_with_sounddevice: thread.start()
StartThread ==
    /\ call.pc = "start"
    /\ threads' = Append(threads, [preset_name |-> call.preset_name, pc |-> "playing"])
    /\ call' = [call EXCEPT !.pc = "store"]
    /\ UNCHANGED <<builder_vars, normalizer_vars, loader_vars, engine_vars, generator_vars,
                   tokenizer_vars, playing_sounds, call_results>>

\* _play_with_sounddevice: self.playing_sounds[preset_name] = thread, the thread started last
StoreThread ==
    /\ call.pc = "store"
    /\ playing_sounds' = (call.preset_name :> Len(threads)) @@ playing_sounds
    /\ call' = [pc |-> "idle", preset_name |-> ""]
    /\ UNCHANGED <<builder_vars, normalizer_vars, loader_vars, engine_vars, generator_vars,
                   tokenizer_vars, threads, call_results>>

\* play_audio in thread t: playback is over, `if preset_name in self.playing_sounds`
PlaybackCheck(t) ==
    /\ t <= Len(threads)
    /\ threads[t].pc = "playing"
    /\ threads' = [threads EXCEPT ![t].pc = IF threads[t].preset_name \in DOMAIN playing_sounds
                                            THEN "checked" ELSE "done"]
    /\ UNCHANGED <<builder_vars, normalizer_vars, loader_vars, engine_vars, generator_vars,
                   tokenizer_vars, playing_sounds, call, call_results>>

\* play_audio in thread t: `del self.playing_sounds[preset_name]`, a KeyError in the thread
\* when the entry is gone
PlaybackDelete(t) ==
    /\ t <= Len(threads)
    /\ threads[t].pc = "checked"
    /\ IF threads[t].preset_name \in DOMAIN playing_sounds
       THEN /\ playing_sounds' = Deleted(playing_sounds, threads[t].preset_name)
            /\ threads' = [threads EXCEPT ![t].pc = "done"]
       ELSE /\ threads' = [threads EXCEPT ![t].pc = "raised"]
            /\ UNCHANGED playing_sounds
    /\ UNCHANGED <<builder_vars, normalizer_vars, loader_vars, engine_vars, generator_vars,
                   tokenizer_vars, call, call_results>>

NextAudio ==
    \/ \E preset_name \in PlayableNames : PlayPreset(preset_name)
    \/ \E preset_name \in PlayableNames : StopPreset(preset_name)
    \/ StopCheck
    \/ StopDelete
    \/ StartThread
    \/ StoreThread
    \/ \E t \in 1..MaxPlays : PlaybackCheck(t)
    \/ \E t \in 1..MaxPlays : PlaybackDelete(t)

SpecAudio == Init /\ [][NextAudio]_vars

-----------------------------------------------------------------------------
(* One search engine: the index is built once and then queried *)

SearchPreset(name, role, timbral, material) ==
    [name |-> name, role |-> role,
     sound_characteristics |-> SoundCharacteristics(timbral, material, <<>>, "")]

SearchPresets ==
    {SearchPreset("Warm Analog Dream", "pad", "warm", "analog"),
     SearchPreset("Harsh Metal Grind", "lead", "harsh", "metal"),
     [name |-> "Deep Bass", role |-> "bass"]}

TagWords == {"warm", "analog", "harsh", "metal"}

SearchTexts == {"pad", "warm analog pad"} \cup {"pad" \o " " \o tag : tag \in TagWords}

SearchContexts == {<<"", PyNone, "">>, <<"pad", PyFloat(R(120)), "C">>}

InitSearch == InitGraph /\ NoNormalizer /\ NoLoader /\ NoEngine /\ NoGenerator /\ NoInterface

\* search_engine.build_index(preset_list), once and before the first query
BuildIndex(preset_list) ==
    /\ entry_embeddings = <<>>
    /\ search_calls = <<>>
    /\ \E index \in {build_index(embedding_generator, preset_list)} :
           /\ token_embeddings' = index.token_embeddings
           /\ entry_embeddings' = index.entry_embeddings
           /\ idf_scores' = index.idf_scores
    /\ UNCHANGED <<interface_vars, builder_vars, normalizer_vars, loader_vars, engine_vars,
                   policy_vars>>
    /\ UNCHANGED <<normalized_presets, generate_calls, generate_results, search_calls, search_results>>

\* search_engine.search(query_text, role, tempo, key)
Search(query_text, role, tempo, key) ==
    /\ Len(search_calls) < MaxSearches
    /\ search_calls' = Append(search_calls, <<query_text, role, tempo, key>>)
    /\ search_results' = Append(search_results,
                                SemanticSearchEngine_search(embedding_generator, query_text,
                                                            role, tempo, key, 10))
    /\ \E after \in {AfterQuery(embedding_generator, query_text, role, key)} :
           /\ token_embeddings' = after.token_embeddings
           /\ entry_embeddings' = after.entry_embeddings
           /\ idf_scores' = after.idf_scores
    /\ UNCHANGED <<interface_vars, builder_vars, normalizer_vars, loader_vars, engine_vars,
                   policy_vars>>
    /\ UNCHANGED <<normalized_presets, generate_calls, generate_results>>

NextSearch ==
    \/ \E preset_list \in SeqsUpTo(SearchPresets, MaxPresets) \ {<<>>} : BuildIndex(preset_list)
    \/ \E query_text \in SearchTexts, context \in SearchContexts :
           Search(query_text, context[1], context[2], context[3])

SpecSearch == InitSearch /\ [][NextSearch]_vars

-----------------------------------------------------------------------------
(* One search engine whose index is built again and again *)

\* presets of several files: two of them carry the same name
IndexPresets ==
    {SearchPreset("Warm Analog Dream", "pad", "warm", "analog"),
     [name |-> "Deep Bass", role |-> "bass"], [name |-> "Deep Bass", role |-> "lead"]}

\* build_search_index(): search_engine.build_index(self.normalized_presets), preset_list
\* being the list normalize_presets() left there
build_search_index(preset_list) ==
    /\ normalized_presets' = preset_list
    /\ \E index \in {build_index(embedding_generator, preset_list)} :
           /\ token_embeddings' = index.token_embeddings
           /\ entry_embeddings' = index.entry_embeddings
           /\ idf_scores' = index.idf_scores
    /\ UNCHANGED <<interface_vars, builder_vars, normalizer_vars, loader_vars, engine_vars,
                   policy_vars>>
    /\ UNCHANGED <<generate_calls, generate_results, search_calls, search_results>>

NextIndex ==
    \/ \E preset_list \in SeqsUpTo(IndexPresets, MaxPresets) \ {<<>>} :
           build_search_index(preset_list)
    \/ Search("pad", "", PyNone, "")

SpecIndex == InitSearch /\ [][NextIndex]_vars

-----------------------------------------------------------------------------
(* One normalized preset handed to the policy manager *)

PolicyPreset(attack, release, cutoff) ==
    Preset("Warm Pad", "pad", OscTypes(1), <<PyFloat(R(1))>>, PyFloat(R(0)),
           PyFloat(attack), PyFloat(Rat(1, 2)), PyFloat(Rat(7, 10)), PyFloat(release),
           PyFloat(cutoff), PyFloat(Rat(2, 10)), PyFloat(Rat(3, 10)), <<>>)

\* NormalizedPresets: times in seconds, frequencies in Hz
PolicyPresets ==
    {PolicyPreset(attack, release, cutoff) :
        attack \in {Rat(1, 20), Rat(1, 2), R(2)}, release \in {R(1), R(4)},
        cutoff \in {R(1000), R(5000)}}

PolicyTempos == {R(60), R(120), R(240)}

InitPolicy ==
    /\ InitGraph
    /\ NoLoader
    /\ NoEngine
    /\ NoGenerator
    /\ NoInterface
    /\ json_preset = BuildPreset(0, PyFloat(R(1000)), <<>>)
    /\ normalized \in PolicyPresets
    /\ renormalized = json_preset
    /\ normalize_outcome = "none"

\* policy_manager.apply_policy(normalized, role, tempo, "C")
ApplyPolicy(role, tempo) ==
    /\ Len(policy_calls) < MaxPolicyCalls
    /\ policy_calls' = Append(policy_calls, <<role, tempo>>)
    /\ policy_results' = Append(policy_results, apply_policy(normalized, role, tempo, "C"))
    /\ UNCHANGED <<interface_vars, builder_vars, normalizer_vars, loader_vars, engine_vars,
                   search_vars>>
    /\ UNCHANGED <<normalized_presets, generate_calls, generate_results>>

NextPolicy == \E role \in Roles, tempo \in PolicyTempos : ApplyPolicy(role, tempo)

SpecPolicy == InitPolicy /\ [][NextPolicy]_vars

-----------------------------------------------------------------------------
(* Graphs assembled or altered by hand, then validated *)

DetectorIds == {NodeId("a", 0, ""), NodeId("b", 0, ""), NodeId("c", 0, "")}

DetectorPresets ==
    {BuildPreset(1, PyFloat(R(1000)), fx) :
        fx \in {<<>>, <<EffectConfig("reverb", PyFloat(R(1)), PyNone, PyNone, PyNone)>>}}

\* graph.nodes.append(GraphNode(id, ...)); then _validate_graph(graph)
AddNode(id) ==
    /\ Len(graph.nodes) < MaxNodes
    /\ build_outcome = "none"
    /\ graph' = Validated([graph EXCEPT !.nodes = Append(@, GraphNode(id, "effect", [type |-> "reverb"]))])
    /\ UNCHANGED <<interface_vars, virtual_busses, build_outcome, inserted, normalizer_vars,
                   loader_vars, engine_vars, generator_vars>>

\* graph.connections.append((from_node, ..., to_node, ...)); then _validate_graph(graph)
AddConnection(from_node, to_node) ==
    /\ inserted < MaxConns
    /\ build_outcome = "none"
    /\ graph' = Validated([graph EXCEPT !.connections =
                              Append(@, Connection(from_node, "audio_out", to_node, "audio_in"))])
    /\ inserted' = inserted + 1
    /\ UNCHANGED <<interface_vars, virtual_busses, build_outcome, normalizer_vars, loader_vars,
                   engine_vars, generator_vars>>

\* the back-edge of the k-th connection of a built graph is inserted; then _validate_graph(graph)
InsertBackEdge(k) ==
    /\ inserted < MaxConns
    /\ build_outcome = "returned"
    /\ graph' = Validated([graph EXCEPT !.connections =
                              Append(@, Connection(graph.connections[k][3], "audio_out",
                                                   graph.connections[k][1], "audio_in"))])
    /\ inserted' = inserted + 1
    /\ UNCHANGED <<interface_vars, virtual_busses, build_outcome, normalizer_vars, loader_vars,
                   engine_vars, generator_vars>>

NextDetector ==
    \/ \E preset \in DetectorPresets : build_outcome = "none" /\ graph = Graph /\ BuildGraph(preset)
    \/ \E id \in DetectorIds : AddNode(id)
    \/ \E a, b \in DetectorIds : AddConnection(a, b)
    \/ \E k \in 1..Len(graph.connections) : InsertBackEdge(k)

SpecDetector == Init /\ [][NextDetector]_vars

-----------------------------------------------------------------------------
(* Directed cycles of a connection list *)

Edges(connections) == {<<connections[i][1], connections[i][3]>> : i \in 1..Len(connections)}

RECURSIVE TransitiveClosure(_)
TransitiveClosure(E) ==
    LET joined == E \cup UNION {{<<x[1], y[2]>> : y \in {z \in E : z[1] = x[2]}} : x \in E}
    IN IF joined = E THEN E ELSE TransitiveClosure(joined)

HasDirectedCycle(connections) ==
    \E e \in TransitiveClosure(Edges(connections)) : e[1] = e[2]

HasError(g, msg) == \E i \in 1..Len(g.validation_errors) : g.validation_errors[i].msg = msg

NodeIds(g) == {g.nodes[i].id : i \in 1..Len(g.nodes)}

\* C1: the connections of every Graph build_graph returns hold no directed cycle,
\* and its validation_errors hold no 'Feedback loop detected in graph'
C1_BuiltGraphAcyclic ==
    build_outcome = "returned" =>
        /\ ~HasDirectedCycle(graph.connections)
        /\ ~HasError(graph, "Feedback loop detected in graph")

C1_Witness ==
    /\ build_outcome = "returned"
    /\ Len(NodesOfType(graph.nodes, "effect")) = 2
    /\ Len(NodesOfType(graph.nodes, "oscillator")) = 2
    /\ Len(graph.connections) = 10
    /\ Len(virtual_busses.mod_lfo) = MaxBuilds

\* every connection of g runs between two nodes g lists
EndpointsListed(g) ==
    \A e \in Edges(g.connections) : e[1] \in NodeIds(g) /\ e[2] \in NodeIds(g)

\* C2 (as stated): for any node list and any connection list, _validate_graph reports
\* 'Feedback loop detected in graph' exactly when the connections hold a directed cycle
C2_AnyGraph ==
    HasError(graph, "Feedback loop detected in graph") <=> HasDirectedCycle(graph.connections)

\* C2 (amended): for a Graph whose connections all run between listed nodes,
\* _has_feedback_loops is true exactly when the connections hold a directed cycle; and
\* after a back-edge is inserted into a built graph, _validate_graph reports the loop
C2_DetectsCyclesAmongListedNodes ==
    /\ EndpointsListed(graph) =>
           (_has_feedback_loops(graph) <=> HasDirectedCycle(graph.connections))
    /\ EndpointsListed(graph) =>
           (HasError(graph, "Feedback loop detected in graph") <=> HasDirectedCycle(graph.connections))
    /\ build_outcome = "returned" /\ inserted > 0 =>
           HasError(graph, "Feedback loop detected in graph")

C2_Witness ==
    /\ build_outcome = "returned"
    /\ inserted = 1
    /\ EndpointsListed(graph)
    /\ HasDirectedCycle(graph.connections)
    /\ _has_feedback_loops(graph)
    /\ HasError(graph, "Feedback loop detected in graph")

-----------------------------------------------------------------------------
(* The normalizer's contracts *)

\* validation_issues of `preset` holds an issue about the parameter param_name
Flagged(preset, param_name) ==
    \E i \in 1..Len(preset.validation_issues) : preset.validation_issues[i].param = param_name

\* C6: every NormalizedPreset normalize returns has its filter cutoff within [20, 20000]
\* or an issue about filter.cutoff, its resonance at most 0.9 or an issue about it, and
\* every effect's feedback at most 0.85 and gain at most 12 dB or an issue about them
C6_SafeOrFlagged ==
    normalize_outcome = "returned" =>
        /\ \/ RGe(normalized.filter.cutoff.r, R(20)) /\ RLe(normalized.filter.cutoff.r, R(20000))
           \/ Flagged(normalized, Name("filter.cutoff"))
        /\ \/ RLe(normalized.filter.resonance.r, Rat(9, 10))
           \/ Flagged(normalized, Name("filter.resonance"))
        /\ \A i \in 1..Len(normalized.fx) :
              /\ \/ normalized.fx[i].feedback.k = "none"
                 \/ RLe(normalized.fx[i].feedback.r, Rat(85, 100))
                 \/ Flagged(normalized, FxName(i - 1, "feedback"))
              /\ \/ normalized.fx[i].gain.k = "none"
                 \/ RLe(normalized.fx[i].gain.r, R(12))
                 \/ Flagged(normalized, FxName(i - 1, "gain"))

\* C7: the mix ratios normalize returns for a non-empty list of mix ratios sum to 1.0
C7_MixRatiosSumToOne ==
    normalize_outcome = "returned" /\ json_preset.oscillator.mix_ratios # <<>> =>
        sum([i \in 1..Len(normalized.oscillator.mix_ratios) |->
                normalized.oscillator.mix_ratios[i].r]) = R(1)

\* C8: normalize applied to the fields of a NormalizedPreset it returned gives back
\* the same value for every field
C8_Idempotent ==
    /\ normalize_outcome # "reraised"
    /\ normalize_outcome = "renormalized" =>
          /\ renormalized.envelope = normalized.envelope
          /\ renormalized.filter = normalized.filter
          /\ renormalized.oscillator = normalized.oscillator
          /\ renormalized.fx = normalized.fx

\* C9: normalize never raises on a parsed preset; an unparsable time, frequency or
\* percentage is replaced by its default with an issue recorded about it
C9_NeverRaises ==
    /\ normalize_outcome # "raised"
    /\ normalize_outcome = "returned" /\ json_preset.filter.cutoff = PyStr(<<"a", "b", "c">>) =>
          normalized.filter.cutoff = PyFloat(R(1000)) /\ Flagged(normalized, Name("filter.cutoff"))

-----------------------------------------------------------------------------
(* The loader's contract *)

\* the file is readable, well-formed JSON, and every item under 'groups' names a known synthesis type
Parses(file) ==
    /\ file.readable /\ file.well_formed
    /\ file.key = "groups" => \A i \in 1..Len(file.items) : file.items[i].config.synthesis_type \in SynthesisType

\* the names of the presets a file that parses holds, in document order
NamesIn(file) == IF file.key = "groups" THEN [i \in 1..Len(file.items) |-> file.items[i].name] ELSE <<>>

\* C10: load_presets never raises, and leaves in presets exactly the presets of the files
\* that parse, file after file in the order of file_paths, none from a file that fails
C10_FailuresIsolatedPerFile ==
    /\ load_outcome # "raised"
    /\ load_outcome = "returned" =>
          /\ [i \in 1..Len(presets) |-> presets[i].name]
                = Concat([i \in 1..Len(file_paths) |->
                             IF Parses(file_paths[i]) THEN NamesIn(file_paths[i]) ELSE <<>>])
          /\ \A i \in 1..Len(presets) :
                \E j \in 1..Len(file_paths) :
                    /\ Parses(file_paths[j])
                    /\ \E k \in 1..Len(file_paths[j].items) :
                          parse_groups(<<file_paths[j].items[k]>>, 1, <<>>).v = <<presets[i]>>

C10_Witness ==
    /\ load_outcome = "returned"
    /\ Len(file_paths) = 2
    /\ ~Parses(file_paths[1]) /\ file_paths[1].items # <<>>
    /\ Parses(file_paths[2])
    /\ Len(presets) = 2

-----------------------------------------------------------------------------
(* The decision engine's contract *)

\* C5: any two infer_decisions calls with an equal context return identical Decisions
\* (value decisions, routing decisions, jitter_seed), whatever calls and whatever other
\* uses of np.random came before or between them
C5_InferDeterministic ==
    \A i, j \in 1..Len(infer_calls) :
        infer_calls[i] = infer_calls[j] => infer_results[i] = infer_results[j]

C5_Witness ==
    /\ Len(infer_calls) = 3
    /\ infer_calls[1] = infer_calls[3]
    /\ infer_calls[2] # infer_calls[1]
    /\ other_draws = MaxDraws
    /\ infer_results[1] = infer_results[3]
    /\ infer_results[1].routing_decisions # <<>>
    /\ infer_results[2] # infer_results[1]

-----------------------------------------------------------------------------
(* The generator's contract *)

\* C3: on one generator with a built index, any two generate_audio_preset calls with the
\* same (query, role, tempo, key) return the same result, whatever calls ran before or
\* between them
C3_RecompilationReproducible ==
    \A i, j \in 1..Len(generate_calls) :
        generate_calls[i] = generate_calls[j] => generate_results[i] = generate_results[j]

\* C4: generate_audio_preset works on a copy of the chosen candidate: no step changes a
\* field of a NormalizedPreset held in normalized_presets
C4_CopyOnUse == [][normalized_presets' = normalized_presets]_vars

\* C11: every ValueDecision infer_decisions returns has min_val <= final_value <= max_val,
\* every RoutingDecision has 0 <= amount <= 1, and validate_decisions of the result is empty
C11_DecisionsInBounds ==
    \A c \in 1..Len(infer_results) :
        /\ \A n \in 1..Len(infer_results[c].value_decisions) :
               /\ RLe(infer_results[c].value_decisions[n].min_val,
                      infer_results[c].value_decisions[n].final_value)
               /\ RLe(infer_results[c].value_decisions[n].final_value,
                      infer_results[c].value_decisions[n].max_val)
        /\ \A n \in 1..Len(infer_results[c].routing_decisions) :
               /\ RLe(R(0), infer_results[c].routing_decisions[n].amount)
               /\ RLe(infer_results[c].routing_decisions[n].amount, R(1))
        /\ validate_decisions(infer_results[c]) = <<>>

-----------------------------------------------------------------------------
(* The graph builder's contract, continued *)

\* C12: build_graph returns rather than raises for every parsed preset; the Graph returned
\* has the LFO node and its connection in it, and validation_passed is true exactly when
\* validation_errors is empty
C12_CompleteGraphAndDiagnostics ==
    /\ build_outcome # "raised"
    /\ build_outcome = "returned" =>
           /\ \E n \in 1..Len(graph.nodes) : graph.nodes[n] = lfo_node
           /\ \E c \in 1..Len(graph.connections) : graph.connections[c][1] = lfo_node.id
           /\ graph.validation_passed <=> graph.validation_errors = <<>>

\* C13: in every Graph build_graph returns, each node that is not an lfo or an envelope is
\* the source or the destination of a connection, and no validation error says a node is
\* not connected to the signal chain
C13_SignalNodesConnected ==
    build_outcome = "returned" =>
        /\ \A n \in 1..Len(graph.nodes) :
               graph.nodes[n].node_type \notin {"lfo", "envelope"} =>
                   \E c \in 1..Len(graph.connections) :
                       graph.nodes[n].id \in {graph.connections[c][1], graph.connections[c][3]}
        /\ ~HasError(graph, "Node {node.id} is not connected to signal chain")

C13_Witness ==
    /\ build_outcome = "returned"
    /\ NodesOfType(graph.nodes, "oscillator") = <<>>
    /\ NodesOfType(graph.nodes, "effect") = <<>>
    /\ Len(graph.nodes) = 6
    /\ Len(graph.connections) = 6

\* C14: the Graph build_graph returns carries the buses: mod_lfo lists the LFO node's id,
\* mod_env the envelope node's id, macro_motion nothing
C14_GraphCarriesBusses ==
    build_outcome = "returned" =>
        /\ DOMAIN graph.virtual_busses = {"mod_lfo", "mod_env", "macro_motion"}
        /\ graph.virtual_busses["mod_lfo"] = <<lfo_node.id>>
        /\ graph.virtual_busses["mod_env"] = <<NodeId("env_main", 0, "")>>
        /\ graph.virtual_busses["macro_motion"] = <<>>

-----------------------------------------------------------------------------
(* The normalizer's contract, continued *)

\* C15: a preset whose filter cutoff is "25kHz" normalizes (25000.0 Hz, clamped to 20000.0,
\* an issue recorded for the cutoff), and the graph built from it carries a validation
\* error naming the cutoff
C15_KiloHertzScenario ==
    normalize_outcome # "none" /\ json_preset.filter.cutoff = PyStr(<<"2", "5", "k", "H", "z">>) =>
        /\ normalize_outcome # "raised"
        /\ normalized.filter.cutoff = PyFloat(R(20000))
        /\ Flagged(normalized, Name("filter.cutoff"))
        /\ ~build_graph(normalized, GraphBuilder_init).raised
        /\ HasError(build_graph(normalized, GraphBuilder_init).graph,
                    "Filter cutoff {cutoff}Hz out of range [20, 20000]")

ScoreOf(result, preset_id) ==
    result[CHOOSE k \in 1..Len(result) : result[k].preset_id = preset_id].score

PositionOf(result, preset_id) == CHOOSE k \in 1..Len(result) : result[k].preset_id = preset_id

IndexedIds == {entry_embeddings[e].preset_id : e \in 1..Len(entry_embeddings)}

\* C16: on an index built over "Warm Analog Dream" (warm, analog) and "Harsh Metal Grind"
\* (harsh, metal), the search "warm analog pad" with role pad, tempo 120 and key C scores
\* the first preset strictly higher than the second
C16_WarmAnalogDreamScoresHigher ==
    \A i \in 1..Len(search_calls) :
        (/\ search_calls[i] = <<"warm analog pad", "pad", PyFloat(R(120)), "C">>
         /\ IndexedIds = {"Warm Analog Dream", "Harsh Metal Grind"})
        => RGt(ScoreOf(search_results[i], "Warm Analog Dream"),
               ScoreOf(search_results[i], "Harsh Metal Grind"))

\* the tags an entry stands for: the canonical tokens of its text fields
WordsOfEntry(entry) ==
    {canonical_tokens(findall(entry.description), 1)[w] :
        w \in 1..Len(canonical_tokens(findall(entry.description), 1))}

\* search j asks what search i asks plus one word that is a tag of entry e
AddsTagOf(i, j, e) ==
    /\ \E tag \in TagWords \cap WordsOfEntry(entry_embeddings[e]) :
           search_calls[j][1] = search_calls[i][1] \o " " \o tag
    /\ <<search_calls[j][2], search_calls[j][3], search_calls[j][4]>>
           = <<search_calls[i][2], search_calls[i][3], search_calls[i][4]>>

C20_QueriesOnlyRead ==
    [][search_calls' # search_calls
       => /\ <<token_embeddings, entry_embeddings, idf_scores>>'
                 = <<token_embeddings, entry_embeddings, idf_scores>>
          /\ \A i \in 1..Len(search_calls) :
                 search_calls[i] = search_calls'[Len(search_calls')]
                 => search_results[i] = search_results'[Len(search_results')]]_vars

C20_Witness ==
    /\ Len(entry_embeddings) = 2
    /\ Len(search_calls) = 2
    /\ search_calls[1] = search_calls[2]
    /\ search_calls[1][1] = "pad warm"

\* x clamped into [lo, hi]
Within(x, lo, hi) == IF RLt(x, lo) THEN lo ELSE IF RGt(x, hi) THEN hi ELSE x

\* C19: apply_policy returns for attack, decay and release the preset's value in seconds
\* clamped into [min * f, max * f] of the role's envelope policy, with f = 120 / tempo for a
\* role whose tempo scaling is on and f = 1 for fx and drone, and returns sustain, cutoff,
\* resonance and envelope amount clamped into the role's ranges
C19_PolicyClampsCurrentValues ==
    \A i \in 1..Len(policy_calls) :
        LET policy == policies[policy_calls[i][1]]
            f == IF policy.tempo_scaling THEN RDiv(R(120), policy_calls[i][2]) ELSE R(1)
            Time(value, lo, hi) == Within(value.r, RMul(lo, f), RMul(hi, f))
            envelope == policy_results[i].v.envelope
            filter == policy_results[i].v.filter
        IN /\ ~policy_results[i].raised
           /\ envelope.attack = Time(normalized.envelope.attack, policy.envelope.attack_min,
                                     policy.envelope.attack_max)
           /\ envelope.decay = Time(normalized.envelope.decay, policy.envelope.decay_min,
                                    policy.envelope.decay_max)
           /\ envelope.release = Time(normalized.envelope.release, policy.envelope.release_min,
                                      policy.envelope.release_max)
           /\ envelope.sustain = Within(normalized.envelope.sustain.r, policy.envelope.sustain_min,
                                        policy.envelope.sustain_max)
           /\ filter.cutoff = Within(normalized.filter.cutoff.r, policy.filter.cutoff_min,
                                     policy.filter.cutoff_max)
           /\ filter.resonance = Within(normalized.filter.resonance.r, policy.filter.resonance_min,
                                        policy.filter.resonance_max)
           /\ filter.envelope_amount = Within(normalized.filter.envelope_amount.r,
                                              policy.filter.envelope_amount_min,
                                              policy.filter.envelope_amount_max)


\* the words of a text that are no stop words, each as its canonical alias
ExpectedTokens(text) ==
    {kb_aliases(findall(text)[w]) : w \in {v \in 1..Len(findall(text)) : findall(text)[v] \notin stop_words}}

\* C21: tokenize returns the lower-cased words of the text without the stop words, each
\* replaced by its canonical alias; a text with a word that is no stop word gives a
\* list that is not empty
C21_TokenizeCanonicalises ==
    \A i \in 1..Len(tokenize_calls) :
        /\ {tokenize_results[i][t] : t \in 1..Len(tokenize_results[i])} = ExpectedTokens(tokenize_calls[i])
        /\ ExpectedTokens(tokenize_calls[i]) # {} => tokenize_results[i] # <<>>


\* the keyword sets of the roles, in the order the claim gives
RoleOrder ==
    <<"pad", "bass", "lead", "fx", "texture", "arp", "drone", "rhythm", "bell", "chord", "pluck">>

RoleKeywords ==
    [pad |-> {"pad", "warm", "calm", "ambient"}, bass |-> {"bass", "punchy", "driving"},
     lead |-> {"lead", "bright", "energetic", "supersaw"},
     fx |-> {"fx", "chaotic", "experimental"}, texture |-> {"texture", "evolving", "tense"},
     arp |-> {"arp", "plucky", "rhythmic"}, drone |-> {"drone", "airy", "ambient"},
     rhythm |-> {"rhythm", "crunchy", "aggressive"}, bell |-> {"bell", "glassy", "clear"},
     chord |-> {"chord", "soft", "lush"}, pluck |-> {"pluck", "karplus"}]

MatchingRoles(name) ==
    {i \in 1..Len(RoleOrder) : KeywordsIn(name) \cap RoleKeywords[RoleOrder[i]] # {}}

EarliestRole(name) ==
    IF MatchingRoles(name) = {} THEN "pad"
    ELSE RoleOrder[CHOOSE i \in MatchingRoles(name) : \A j \in MatchingRoles(name) : i <= j]

\* C22: the NormalizedPreset keeps an explicit role of the input; without one its role is
\* that of the earliest keyword set, in the fixed order, with a keyword in the lower-cased
\* name, and pad when no set matches
C22_RoleAssignment ==
    normalize_outcome = "returned" =>
        normalized.role = IF json_preset.role # "none" THEN json_preset.role
                          ELSE EarliestRole(json_preset.name)

\* a preset without a role whose name matches the sets of pad and of bass was normalized
C22_Witness ==
    /\ normalize_outcome = "returned"
    /\ json_preset.role = "none"
    /\ json_preset.name = "Warm Bass"
    /\ normalized.role = "pad"

\* C23: a parsed attack below 0.001 s of a preset whose role has envelope defaults is
\* replaced by a time of that role's default attack range
C23_ShortAttackGetsRoleDefault ==
    LET parsed == _normalize_envelope(json_preset.envelope)
        role == _determine_role(json_preset)
        Replaced(range) ==
            /\ normalize_outcome = "returned"
            /\ RLe(range[1], normalized.envelope.attack.r)
            /\ RLe(normalized.envelope.attack.r, range[2])
    IN (/\ normalize_outcome # "none"
        /\ ~parsed.raised
        /\ RLt(parsed.v.attack.r, Rat(1, 1000))
        /\ role \in {"pad", "bass", "lead"})
       => Replaced(CASE role = "pad" -> <<Rat(200, 1000), Rat(800, 1000)>>
                     [] role = "bass" -> <<Rat(5, 1000), Rat(40, 1000)>>
                     [] role = "lead" -> <<Rat(5, 1000), Rat(120, 1000)>>)


\* C24: the index holds exactly one entry for each preset of the list of the latest
\* build_index call, and a search returns presets of that list only
C24_IndexHoldsTheLatestList ==
    LET returned == SemanticSearchEngine_search(embedding_generator, "pad", "", PyNone, "", 10)
        listed == {normalized_presets[p].name : p \in 1..Len(normalized_presets)}
    IN entry_embeddings # <<>> =>
           /\ Len(entry_embeddings) = Len(normalized_presets)
           /\ \A p \in 1..Len(normalized_presets) :
                  \E e \in 1..Len(entry_embeddings) :
                      /\ entry_embeddings[e].preset_id = normalized_presets[p].name
                      /\ entry_embeddings[e].role = normalized_presets[p].role
           /\ \A r \in 1..Len(returned) : returned[r].preset_id \in listed


\* C25: the record apply_decisions returns reports a final value under the parameter name
\* of every value head of the engine, all eight of them
C25_EveryValueDecisionApplied ==
    \A k \in 1..Len(generate_results) :
        (~generate_results[k].raised /\ generate_results[k].result # <<>>) =>
            \A h \in 1..Len(value_heads) :
                value_heads[h].parameter_name
                    \in DOMAIN generate_results[k].result.applied_changes.values


RECURSIVE MixSum(_)
MixSum(nodes) ==
    IF nodes = <<>> THEN R(0) ELSE RAdd(Head(nodes).parameters.mix.r, MixSum(Tail(nodes)))

\* C26: in a graph built from a normalized preset with at least one oscillator type, the
\* 'mix' parameters of the oscillator nodes sum to 1.0
C26_OscillatorMixSumsToOne ==
    (/\ normalize_outcome = "returned"
     /\ build_outcome = "returned"
     /\ Len(normalized.oscillator.types) >= 1)
    => LET total == MixSum(NodesOfType(graph.nodes, "oscillator"))
       IN RLe(total, R(1)) /\ RGe(total, R(1))

\* C30: the envelope node of the graph built from a NormalizedPreset carries the preset's
\* attack, decay and release in seconds, and the filter node its cutoff and resonance
C30_UnitsPreservedIntoGraph ==
    (normalize_outcome = "returned" /\ build_outcome = "returned")
    => LET Same(x, y) == RLe(x, y) /\ RGe(x, y)
           env == NodesOfType(graph.nodes, "envelope")[1].parameters
           flt == NodesOfType(graph.nodes, "filter")[1].parameters
       IN /\ Same(env.attack.r, normalized.envelope.attack.r)
          /\ Same(env.decay.r, normalized.envelope.decay.r)
          /\ Same(env.release.r, normalized.envelope.release.r)
          /\ Same(flt.cutoff.r, normalized.filter.cutoff.r)
          /\ Same(flt.resonance.r, normalized.filter.resonance.r)


\* C27: RoutingHead.infer enables no connection for a query vector of Euclidean norm at most
\* 1, whatever the role and the target, and the routing map generate_audio_preset reports
\* is empty
C27_NoRoutingEnabled ==
    /\ \A k \in 1..Len(infer_calls) :
           RLe(SumSquares(infer_calls[k].query_vector), R(1)) =>
               infer_results[k].routing_decisions = <<>>
    /\ \A k \in 1..Len(generate_results) :
           (~generate_results[k].raised /\ generate_results[k].result # <<>>) =>
               DOMAIN generate_results[k].result.applied_changes.routing = {}

\* the engine was asked about a vector of norm 1 for a role without adjustments and
\* enabled nothing, and a preset was generated
C27_Witness ==
    /\ infer_calls # <<>>
    /\ infer_calls[1].role = "bell"
    /\ infer_calls[1].query_vector = <<R(-1), R(0), R(0), R(0)>>
    /\ infer_results[1].routing_decisions = <<>>
    /\ generate_results # <<>>
    /\ ~generate_results[1].raised
    /\ generate_results[1].result # <<>>


\* C28: after any number of builds on one builder, every virtual bus of the builder lists
\* a node id at most once
C28_BusRegistrationsDoNotAccumulate ==
    \A bus \in DOMAIN virtual_busses :
        \A i, j \in 1..Len(virtual_busses[bus]) :
            virtual_busses[bus][i] = virtual_busses[bus][j] => i = j


\* C29: no stop_preset call raises, whatever the playback threads do between its steps:
\* each call returned False or True
C29_StopPresetNeverRaises ==
    \A k \in 1..Len(call_results) : call_results[k] \in {"False", "True"}

\* C29, second part: an entry of playing_sounds is removed by stop_preset or by the
\* playback thread it was stored for
C29_EntryRemovedByItsOwner ==
    [][\A name \in DOMAIN playing_sounds :
           name \notin DOMAIN playing_sounds' =>
               \/ call.pc \in {"stop_delete", "play_stop_delete"} /\ call' # call
               \/ threads'[playing_sounds[name]].pc # threads[playing_sounds[name]].pc]_vars

=============================================================================
